---- MODULE Spec2Model ----
(***************************************************************************)
(* Transcript-assembly pipeline of cc-transcript: format detection and     *)
(* loading (parse.ts), grouping of log entries into conversations          *)
(* (render/transcript.tsx), pagination (render/pagination.tsx) and the     *)
(* file map built by renderTranscript.                                     *)
(*                                                                         *)
(* Representation.  A JavaScript string is a sequence of characters, an    *)
(* optional field is a sequence of length 0 (undefined) or 1, a message    *)
(* content is a record tagged "string" or "array".  Timestamps are the     *)
(* position of the entry in the log, so that an entry can be told from     *)
(* every other entry of the same shape.                                    *)
(***************************************************************************)
EXTENDS Integers, Sequences, FiniteSets, TLC

(***************************************************************************)
(* Bounds of the model.                                                    *)
(***************************************************************************)
MaxLoglines == 4
MaxRenderLoglines == 12
MaxPageNum == 1100
MaxLines == 3
MaxItems == 2
MaxSegments == 4
MaxPageLoglines == 3
MaxAnalyzeLoglines == 3
MaxSummaryLoglines == 3
MaxLinkLoglines == 3
MaxNavPages == 12

(***************************************************************************)
(* Program constants.                                                      *)
(***************************************************************************)
PreviewLimit == 100
PROMPTS_PER_PAGE == 5
PageNumWidth == 3

(***************************************************************************)
(* Generic helpers.                                                        *)
(***************************************************************************)
SeqsUpTo(S, n) == UNION {[1..k -> S] : k \in 0..n}

RECURSIVE Concat(_)
Concat(ss) == IF ss = <<>> THEN <<>> ELSE Head(ss) \o Concat(Tail(ss))

(***************************************************************************)
(* Data model (schemas.ts).                                                *)
(***************************************************************************)
Undefined == <<>>
Some(v) == <<v>>

StringContent(s) == [kind |-> "string", text |-> s, blocks |-> <<>>]
ArrayContent(bs) == [kind |-> "array", text |-> <<>>, blocks |-> bs]

\* a value of unknown type (z.unknown()): null, a primitive, or an object of
\* which the keys the renderers read are kept ("" and <<>> for a missing key)
JsonItem(json, ty, text, content, status, source) ==
  [json |-> json, type |-> ty, text |-> text, content |-> content,
   status |-> status, source |-> source]
JsonNull == JsonItem("null", "", <<>>, <<>>, "", FALSE)
JsonNumber == JsonItem("number", "", <<"7">>, <<>>, "", FALSE)
ObjectItem(ty, text, source) == JsonItem("object", ty, text, <<>>, "", source)
TodoItem(content, status) == JsonItem("object", "", <<>>, content, status, FALSE)

\* ToolInputSchema: a record of unknown values; input.todos is missing, not
\* an array, or an array of unknown values; content, newString and
\* replacement are missing or strings
NotAnArray == [isArray |-> FALSE, items |-> <<>>]
ArrayOf(items) == [isArray |-> TRUE, items |-> items]
ToolInput(todos) ==
  [todos |-> todos, content |-> Undefined, newString |-> Undefined,
   replacement |-> Undefined]

\* ToolResultBlockSchema.content: a string or an array of unknown values
ResultString(s) == [kind |-> "string", text |-> s, items |-> <<>>]
ResultArray(items) == [kind |-> "array", text |-> <<>>, items |-> items]

Block(ty) ==
  [type |-> ty, text |-> <<>>, thinking |-> <<>>, name |-> <<>>,
   input |-> ToolInput(Undefined), content |-> ResultString(<<>>),
   is_error |-> FALSE]

TextBlock(s) == [Block("text") EXCEPT !.text = s]
ThinkingOf(s) == [Block("thinking") EXCEPT !.thinking = s]
ImageOf == Block("image")
ToolUseOf(name, input) == [Block("tool_use") EXCEPT !.name = name, !.input = input]
ToolResultOf(content, isError) ==
  [Block("tool_result") EXCEPT !.content = content, !.is_error = isError]
ToolUseBlock == Block("tool_use")
ToolResultBlock == Block("tool_result")

Message(c) == [content |-> c]

Logline(ty, ts, msg, c, compact) ==
  [type |-> ty, timestamp |-> ts, message |-> msg, content |-> c,
   isCompactSummary |-> compact]

(***************************************************************************)
(* isToolResultMessage (render/message.tsx): a non-empty array in which    *)
(* every block is tagged tool_result.                                      *)
(***************************************************************************)
\* the block tag compared against is mistyped
isToolResultMessage_WrongTag(message) ==
  LET content == message.content IN
  IF content.kind # "array" THEN FALSE
  ELSE IF Len(content.blocks) = 0 THEN FALSE
  ELSE \A k \in 1..Len(content.blocks) : content.blocks[k].type = "tool_use"

\* content.some(...) in place of content.every(...)
isToolResultMessage_Some(message) ==
  LET content == message.content IN
  IF content.kind # "array" THEN FALSE
  ELSE IF Len(content.blocks) = 0 THEN FALSE
  ELSE \E k \in 1..Len(content.blocks) : content.blocks[k].type = "tool_result"

isToolResultMessage(message) ==
  LET content == message.content IN
  IF content.kind # "array" THEN FALSE
  ELSE IF Len(content.blocks) = 0 THEN FALSE
  ELSE \A k \in 1..Len(content.blocks) : content.blocks[k].type = "tool_result"

(***************************************************************************)
(* getUserTextPreview (render/transcript.tsx).                             *)
(***************************************************************************)
IsSpace(ch) == ch \in {" ", "\n", "\t"}

\* preview.replace(/\s+/g, " "): every run of whitespace becomes one space
CollapseSpaces(s) ==
  LET EndsRun(i) == ~IsSpace(s[i]) \/ i = Len(s) \/ ~IsSpace(s[i + 1])
      Keep(kept) == [k \in 1..Len(kept) |-> IF IsSpace(s[kept[k]]) THEN " " ELSE s[kept[k]]]
  IN Keep(SelectSeq([i \in 1..Len(s) |-> i], EndsRun))

RECURSIVE TrimStart(_)
TrimStart(s) ==
  IF s # <<>> /\ IsSpace(Head(s)) THEN TrimStart(Tail(s)) ELSE s

RECURSIVE TrimEnd(_)
TrimEnd(s) ==
  IF s # <<>> /\ IsSpace(s[Len(s)]) THEN TrimEnd(SubSeq(s, 1, Len(s) - 1)) ELSE s

Trim(s) == TrimEnd(TrimStart(s))

RECURSIVE FirstTextBlock(_)
FirstTextBlock(blocks) ==
  IF blocks = <<>> THEN <<>>
  ELSE IF Head(blocks).type = "text" THEN Head(blocks).text
  ELSE FirstTextBlock(Tail(blocks))

getUserTextPreview(message) ==
  LET content == message.content
      fromBlocks == FirstTextBlock(content.blocks)
      preview ==
        IF content.kind = "string" THEN content.text
        ELSE IF fromBlocks # <<>> THEN fromBlocks
        ELSE IF Len(content.blocks) > 0
             THEN <<"[", content.blocks[1].type, "]">>
             ELSE <<>>
      normalized == Trim(CollapseSpaces(preview))
  IN IF Len(normalized) > PreviewLimit
     THEN SubSeq(normalized, 1, PreviewLimit) \o <<".", ".", ".">>
     ELSE normalized

(***************************************************************************)
(* getMessageFromLogline: the nested message if present, else the flat     *)
(* content wrapped as a message, else null.                                *)
(***************************************************************************)
\* the flat field wins over the nested one
getMessageFromLogline_FlatFirst(logline) ==
  IF logline.content # Undefined THEN Some(Message(logline.content[1]))
  ELSE IF logline.message # Undefined THEN Some(logline.message[1])
  ELSE Undefined

\* the flat content field is not consulted
getMessageFromLogline_LegacyOnly(logline) ==
  IF logline.message # Undefined THEN Some(logline.message[1])
  ELSE Undefined

getMessageFromLogline(logline) ==
  IF logline.message # Undefined THEN Some(logline.message[1])
  ELSE IF logline.content # Undefined THEN Some(Message(logline.content[1]))
  ELSE Undefined

\* JSON.stringify(message) and the JSON.parse that renderMessage applies
JSONstringify(message) == <<"{", "content", ":", message.content, "}">>
JSONparse(json) == [content |-> json[4]]

ConversationMessage(ty, json, ts) ==
  [type |-> ty, messageJson |-> json, timestamp |-> ts]

(***************************************************************************)
(* One iteration of the loop of groupLoglinesToConversations.  The state   *)
(* of the fold is the conversation list and `current', the index of the    *)
(* open conversation in that list (0 for null).                            *)
(***************************************************************************)
\* the message is put in the first conversation
PushMessage_First(convs, cur, m) ==
  [convs EXCEPT ![1].messages = Append(@, m)]

\* a message equal in content to the last one of the conversation is dropped
PushMessage_Dedup(convs, cur, m) ==
  LET ms == convs[cur].messages IN
  IF ms # <<>> /\ ms[Len(ms)].messageJson = m.messageJson /\ ms[Len(ms)].type = m.type
  THEN convs
  ELSE [convs EXCEPT ![cur].messages = Append(@, m)]

PushMessage(convs, cur, m) ==
  [convs EXCEPT ![cur].messages = Append(@, m)]

GroupStep(st, logline) ==
  IF logline.type # "user" /\ logline.type # "assistant" THEN st
  ELSE LET resolved == getMessageFromLogline(logline) IN
  IF resolved = Undefined THEN st
  ELSE
    LET message == resolved[1]
        timestamp == logline.timestamp
        messageJson == JSONstringify(message)
    IN
    IF logline.type = "user"
    THEN LET startsConversation == ~isToolResultMessage(message)
             opened ==
               IF startsConversation
               THEN [conversations |->
                       Append(st.conversations,
                              [userText |-> getUserTextPreview(message),
                               timestamp |-> timestamp,
                               messages |-> <<>>,
                               isContinuation |-> logline.isCompactSummary]),
                     current |-> Len(st.conversations) + 1]
               ELSE st
         IN IF opened.current # 0
            THEN [opened EXCEPT !.conversations =
                    PushMessage(@, opened.current,
                                ConversationMessage("user", messageJson, timestamp))]
            ELSE opened
    ELSE IF st.current = 0 THEN st
    ELSE [st EXCEPT !.conversations =
            PushMessage(@, st.current,
                        ConversationMessage("assistant", messageJson, timestamp))]

EmptyFold == [conversations |-> <<>>, current |-> 0]

RECURSIVE GroupFold(_, _)
GroupFold(st, ls) ==
  IF ls = <<>> THEN st ELSE GroupFold(GroupStep(st, Head(ls)), Tail(ls))

groupLoglinesToConversations(ls) == GroupFold(EmptyFold, ls).conversations

(***************************************************************************)
(* formatPageNum and getPageFilename (render/pagination.tsx).              *)
(***************************************************************************)
DigitChar(d) ==
  CASE d = 0 -> "0" [] d = 1 -> "1" [] d = 2 -> "2" [] d = 3 -> "3" [] d = 4 -> "4"
    [] d = 5 -> "5" [] d = 6 -> "6" [] d = 7 -> "7" [] d = 8 -> "8" [] d = 9 -> "9"

\* String(n) for a non-negative integer
RECURSIVE ToDecimal(_)
ToDecimal(n) ==
  IF n < 10 THEN <<DigitChar(n)>> ELSE ToDecimal(n \div 10) \o <<DigitChar(n % 10)>>

\* s.padStart(width, fill): fill is prepended until the width is reached,
\* a string already that long is returned as it is
RECURSIVE padStart(_, _, _)
padStart(s, width, fill) ==
  IF Len(s) >= width THEN s ELSE padStart(<<fill>> \o s, width, fill)

\* padEnd in place of padStart
formatPageNum_PadEnd(pageNum) ==
  LET s == ToDecimal(pageNum) IN
  IF Len(s) >= PageNumWidth THEN s
  ELSE s \o [k \in 1..(PageNumWidth - Len(s)) |-> "0"]

\* padded to two digits only
formatPageNum_Pad2(pageNum) == padStart(ToDecimal(pageNum), PageNumWidth - 1, "0")

formatPageNum(pageNum) == padStart(ToDecimal(pageNum), PageNumWidth, "0")

PagePrefix == <<"p", "a", "g", "e", "-">>
HtmlSuffix == <<".", "h", "t", "m", "l">>
IndexHtml == <<"i", "n", "d", "e", "x">> \o HtmlSuffix

getPageFilename(pageNum) == PagePrefix \o formatPageNum(pageNum) \o HtmlSuffix

(***************************************************************************)
(* paginateConversations (render/pagination.tsx).  The state of its loop   *)
(* is the list of finished pages and the page being filled.                *)
(***************************************************************************)
EmptyPaging == [pages |-> <<>>, currentPage |-> <<>>]

\* the page is closed only once it holds more than promptsPerPage items
PaginateStep_Greater(st, conv, promptsPerPage) ==
  LET filled == Append(st.currentPage, conv) IN
  IF Len(filled) > promptsPerPage
  THEN [pages |-> Append(st.pages, filled), currentPage |-> <<>>]
  ELSE [pages |-> st.pages, currentPage |-> filled]

PaginateStep(st, conv, promptsPerPage) ==
  LET filled == Append(st.currentPage, conv) IN
  IF Len(filled) >= promptsPerPage
  THEN [pages |-> Append(st.pages, filled), currentPage |-> <<>>]
  ELSE [pages |-> st.pages, currentPage |-> filled]

\* the remainder page is pushed even when it is empty
PaginateFinish_Always(st) == Append(st.pages, st.currentPage)

PaginateFinish(st) ==
  IF Len(st.currentPage) > 0 THEN Append(st.pages, st.currentPage) ELSE st.pages

RECURSIVE PaginateFold(_, _, _)
PaginateFold(st, convs, promptsPerPage) ==
  IF convs = <<>> THEN st
  ELSE PaginateFold(PaginateStep(st, Head(convs), promptsPerPage), Tail(convs),
                    promptsPerPage)

paginateConversations(convs, promptsPerPage) ==
  PaginateFinish(PaginateFold(EmptyPaging, convs, promptsPerPage))

\* Math.floor in place of Math.ceil
calculateTotalPages_Floor(totalConversations, promptsPerPage) ==
  IF totalConversations = 0 THEN 0
  ELSE totalConversations \div promptsPerPage

calculateTotalPages(totalConversations, promptsPerPage) ==
  IF totalConversations = 0 THEN 0
  ELSE IF totalConversations % promptsPerPage = 0
       THEN totalConversations \div promptsPerPage
       ELSE totalConversations \div promptsPerPage + 1

(***************************************************************************)
(* Characters and character classes of the regular expressions.            *)
(***************************************************************************)
UpperChars ==
  <<"A", "B", "C", "D", "E", "F", "G", "H", "I", "J", "K", "L", "M",
    "N", "O", "P", "Q", "R", "S", "T", "U", "V", "W", "X", "Y", "Z">>
LowerChars ==
  <<"a", "b", "c", "d", "e", "f", "g", "h", "i", "j", "k", "l", "m",
    "n", "o", "p", "q", "r", "s", "t", "u", "v", "w", "x", "y", "z">>
Range(s) == {s[k] : k \in 1..Len(s)}

HexChars == {"0", "1", "2", "3", "4", "5", "6", "7", "8", "9",
             "a", "b", "c", "d", "e", "f"}                        \* [a-f0-9]
WordChars == Range(UpperChars) \cup Range(LowerChars) \cup HexChars \cup {"_"}  \* \w
LineTerminators == {"\n", "\r"}                      \* what . does not match
WhiteSpace == {" ", "\n", "\r", "\t"}                \* \s

\* String.prototype.toLowerCase
LowerChar(ch) ==
  IF \E k \in 1..Len(UpperChars) : UpperChars[k] = ch
  THEN LowerChars[CHOOSE k \in 1..Len(UpperChars) : UpperChars[k] = ch]
  ELSE ch
toLowerCase(s) == [k \in 1..Len(s) |-> LowerChar(s[k])]

\* length of the longest run of characters of `class' that starts at s[i]
RECURSIVE RunLength(_, _, _)
RunLength(s, i, class) ==
  IF i <= Len(s) /\ s[i] \in class THEN 1 + RunLength(s, i + 1, class) ELSE 0

\* the first position at or after i that holds a line terminator, Len(s) + 1
\* when the line runs to the end of the string
RECURSIVE LineEnd(_, _)
LineEnd(s, i) ==
  IF i > Len(s) \/ s[i] \in LineTerminators THEN i ELSE LineEnd(s, i + 1)

(***************************************************************************)
(* HTML as render-to-string emits it, kept as the element tree: a string   *)
(* of HTML is the sequence of its top-level nodes, "" is <<>>, string      *)
(* concatenation is \o.  A text node keeps the text it was given (the      *)
(* serializer escapes it), a markdown node the text marked was given.      *)
(***************************************************************************)
Node(cls, id, href, text, kids) ==
  [cls |-> cls, id |-> id, href |-> href, text |-> text, kids |-> kids]
Element(cls, kids) == Node(cls, <<>>, <<>>, <<>>, kids)
TextNode(s) == Node("#text", <<>>, <<>>, s, <<>>)
Anchor(href, kids) == Node("a", <<>>, href, <<>>, kids)

\* a string child: the empty string emits nothing
Txt(s) == IF s = <<>> THEN <<>> ELSE <<TextNode(s)>>

\* renderToHtml(vnode)
renderToHtml(vnode) == <<vnode>>

\* renderMarkdown (render/markdown.ts)
renderMarkdown(text) ==
  IF text = <<>> THEN <<>> ELSE <<Node("#markdown", <<>>, <<>>, text, <<>>)>>

\* Truncatable (render/jsx.tsx)
Truncatable(children) ==
  Element("truncatable",
          << Element("truncatable-content", children),
             Element("expand-btn", Txt(<<"Show more">>)) >>)

\* String.prototype.trim() leaves nothing: no element, and only white space
\* in the text between elements
IsBlankHtml(html) ==
  \A k \in 1..Len(html) :
     /\ html[k].cls = "#text"
     /\ \A j \in 1..Len(html[k].text) : html[k].text[j] \in WhiteSpace

(***************************************************************************)
(* The commit pattern of ToolResult (render/content-blocks.tsx):           *)
(*   /\[[\w\-/]+ ([a-f0-9]{7,})\] (.+?)(?:\n|$)/g                          *)
(* Positions are 1-based.  No class of the pattern holds the character     *)
(* that must follow it, so each greedy run is the longest run, and the     *)
(* lazy (.+?) ends at the first line terminator, which must be \n, or at   *)
(* the end of the string.                                                  *)
(***************************************************************************)
MinHashLength == 7
ShortHashLength == 7

RefChars == WordChars \cup {"-", "/"}

\* the match is taken to end where the message starts
CommitMatchAt_EndBeforeMessage(s, i) ==
  LET n == Len(s)
      ref == RunLength(s, i + 1, RefChars)
      space == i + 1 + ref
      hash == RunLength(s, space + 1, HexChars)
      close == space + 1 + hash
      start == close + 2
      stop == LineEnd(s, start)
  IN IF /\ i <= n /\ s[i] = "["
        /\ ref >= 1
        /\ space <= n /\ s[space] = " "
        /\ hash >= MinHashLength
        /\ close + 1 <= n /\ s[close] = "]" /\ s[close + 1] = " "
        /\ stop > start
        /\ (stop = n + 1 \/ s[stop] = "\n")
     THEN Some([index |-> i,
                end |-> start,
                hash |-> SubSeq(s, space + 1, close - 1),
                message |-> SubSeq(s, start, stop - 1)])
     ELSE Undefined

CommitMatchAt(s, i) ==
  LET n == Len(s)
      ref == RunLength(s, i + 1, RefChars)
      space == i + 1 + ref
      hash == RunLength(s, space + 1, HexChars)
      close == space + 1 + hash
      start == close + 2
      stop == LineEnd(s, start)
  IN IF /\ i <= n /\ s[i] = "["
        /\ ref >= 1
        /\ space <= n /\ s[space] = " "
        /\ hash >= MinHashLength
        /\ close + 1 <= n /\ s[close] = "]" /\ s[close + 1] = " "
        /\ stop > start
        /\ (stop = n + 1 \/ s[stop] = "\n")
     THEN Some([index |-> i,
                end |-> IF stop = n + 1 THEN stop ELSE stop + 1,
                hash |-> SubSeq(s, space + 1, close - 1),
                message |-> SubSeq(s, start, stop - 1)])
     ELSE Undefined

\* commitRegex.exec(content) with commitRegex.lastIndex = from
RECURSIVE CommitExec(_, _)
CommitExec(s, from) ==
  LET Try(match) == IF match # Undefined THEN match ELSE CommitExec(s, from + 1)
  IN IF from > Len(s) THEN Undefined ELSE Try(CommitMatchAt(s, from))

CommitCard(githubRepo, hash, message) ==
  LET shortHash == SubSeq(hash, 1, IF Len(hash) < ShortHashLength THEN Len(hash)
                                    ELSE ShortHashLength)
  IN Element("commit-card",
       << Anchor(<<"https://github.com/">> \o githubRepo \o <<"/commit/">> \o hash,
                 << Element("commit-card-hash", Txt(shortHash)),
                    TextNode(<<" ">>), TextNode(message) >>) >>)

\* the while loop of ToolResult from lastIndex on, then the remaining text
RECURSIVE CommitParts(_, _, _)
CommitParts(content, lastIndex, githubRepo) ==
  LET Step(match) ==
        IF match = Undefined
        THEN IF lastIndex <= Len(content)
             THEN <<TextNode(SubSeq(content, lastIndex, Len(content)))>>
             ELSE <<>>
        ELSE (IF match[1].index > lastIndex
              THEN <<TextNode(SubSeq(content, lastIndex, match[1].index - 1))>>
              ELSE <<>>)
             \o <<CommitCard(githubRepo, match[1].hash, match[1].message)>>
             \o CommitParts(content, match[1].end, githubRepo)
  IN Step(CommitExec(content, lastIndex))

(***************************************************************************)
(* JSON.stringify of the values the renderers print.  A nested value is    *)
(* one token; a string is quoted with \n and " escaped.                    *)
(***************************************************************************)
RECURSIVE JsonEscape(_)
JsonEscape(s) ==
  IF s = <<>> THEN <<>>
  ELSE (CASE Head(s) = "\n" -> <<"\\", "n">>
          [] Head(s) = "\"" -> <<"\\", "\"">>
          [] OTHER -> <<Head(s)>>) \o JsonEscape(Tail(s))

Quote(s) == <<"\"">> \o JsonEscape(s) \o <<"\"">>

\* the members of an object, in key order, as <<key, value text>>
ItemMembers(item) ==
     (IF item.type # "" THEN <<<<"type", Quote(<<item.type>>)>>>> ELSE <<>>)
  \o (IF item.text # <<>> THEN <<<<"text", Quote(item.text)>>>> ELSE <<>>)
  \o (IF item.content # <<>> THEN <<<<"content", Quote(item.content)>>>> ELSE <<>>)
  \o (IF item.status # "" THEN <<<<"status", Quote(<<item.status>>)>>>> ELSE <<>>)

BlockMembers(block) ==
     <<<<"type", Quote(<<block.type>>)>>>>
  \o (IF block.text # <<>> THEN <<<<"text", Quote(block.text)>>>> ELSE <<>>)

InputMembers(input) ==
  IF input.todos # Undefined THEN <<<<"todos", <<"[...]">>>>>> ELSE <<>>

\* JSON.stringify(object)
RECURSIVE CompactMembers(_)
CompactMembers(members) ==
  IF members = <<>> THEN <<>>
  ELSE Quote(<<Head(members)[1]>>) \o <<":">> \o Head(members)[2]
       \o (IF Len(members) > 1 THEN <<",">> ELSE <<>>)
       \o CompactMembers(Tail(members))

CompactJson(members) == <<"{">> \o CompactMembers(members) \o <<"}">>

JSONstringifyItem(item) ==
  IF item.json = "null" THEN <<"n", "u", "l", "l">>
  ELSE IF item.json = "object" THEN CompactJson(ItemMembers(item))
  ELSE item.text

\* JSON.stringify(object, null, 2)
RECURSIVE PrettyMembers(_)
PrettyMembers(members) ==
  IF members = <<>> THEN <<>>
  ELSE <<"\n", " ", " ">> \o Quote(<<Head(members)[1]>>) \o <<":", " ">>
       \o Head(members)[2]
       \o (IF Len(members) > 1 THEN <<",">> ELSE <<>>)
       \o PrettyMembers(Tail(members))

\* the members are printed on one line, without the indentation
PrettyJson_Compact(members) ==
  CompactJson(members)

PrettyJson(members) ==
  IF members = <<>> THEN <<"{", "}">>
  ELSE <<"{">> \o PrettyMembers(members) \o <<"\n", "}">>

(***************************************************************************)
(* The components of render/content-blocks.tsx and tool-renderers.tsx.  A  *)
(* render either returns HTML or raises the TypeError of a property read   *)
(* on null or undefined.                                                   *)
(***************************************************************************)
TypeError == [thrown |-> TRUE, html |-> <<>>]
Html(html) == [thrown |-> FALSE, html |-> html]

\* the results of a map, joined; the first throw ends it
RECURSIVE JoinResults(_)
JoinResults(rs) ==
  IF rs = <<>> THEN Html(<<>>)
  ELSE IF Head(rs).thrown THEN TypeError
  ELSE LET rest == JoinResults(Tail(rs))
       IN IF rest.thrown THEN TypeError ELSE Html(Head(rs).html \o rest.html)

ThinkingBlock(block) ==
  Element("thinking",
          << Element("thinking-label", Txt(<<"Thinking">>)),
             Element("div", renderMarkdown(block.thinking)) >>)

AssistantText(text) == Element("assistant-text", renderMarkdown(text))

ToolUse(block) ==
  Element("tool-use",
          << Element("tool-header",
                     <<Element("tool-icon", <<>>), TextNode(<<" ">>)>> \o Txt(block.name)),
             Truncatable(<<Element("json", Txt(PrettyJson(InputMembers(block.input))))>>) >>)

\* const { media_type, data } = block.source
ImageBlock(source) ==
  IF source
  THEN Html(<<Element("image-block", <<Element("img", <<>>)>>)>>)
  ELSE TypeError

\* the file and shell tools: the header and the panes are not looked into
WriteToolBlock == Element("file-tool write-tool", <<>>)
EditToolBlock == Element("file-tool edit-tool", <<>>)
BashToolBlock == Element("tool-use bash-tool", <<>>)

getIcon(status) ==
  CASE status = "completed" -> "check"
    [] status = "in_progress" -> "arrow"
    [] status = "pending" -> "circle"
    [] OTHER -> "circle"

TodoWriteBlock(todos) ==
  Element("todo-list",
          << Element("todo-header", Txt(<<"Task List">>)),
             Element("todo-items",
                     [k \in 1..Len(todos) |->
                        Element("todo-item todo-" \o todos[k].status,
                                << Element("todo-icon", Txt(<<getIcon(todos[k].status)>>)),
                                   Element("todo-content", Txt(todos[k].content)) >>)]) >>)

\* the callback of input.todos.map: t.content on null raises
MapTodo(t) ==
  IF t.json = "null" THEN Undefined
  ELSE Some([content |-> t.content,
             status |-> IF t.status = "" THEN "pending" ELSE t.status])

\* content.some((item) => item.type === 'image'): stops at the first image,
\* item.type on null raises
RECURSIVE SomeImage(_)
SomeImage(items) ==
  IF items = <<>> THEN "false"
  ELSE IF Head(items).json = "null" THEN "throw"
  ELSE IF Head(items).type = "image" THEN "true"
  ELSE SomeImage(Tail(items))

\* the callback of content.map in ToolResult
RenderItem(item) ==
  IF item.json = "null" THEN TypeError
  ELSE IF item.type = "image" THEN ImageBlock(item.source)
  ELSE IF item.type = "text" THEN Html(<<Element("div", Txt(item.text))>>)
  ELSE Html(<<Element("div", Txt(JSONstringifyItem(item)))>>)

Truthy(githubRepo) == githubRepo # Undefined /\ githubRepo[1] # <<>>

ToolResult(block, githubRepo) ==
  LET content == block.content
      isArray == content.kind = "array"
      hasImages == IF isArray THEN SomeImage(content.items) ELSE "false"
      renderedContent ==
        IF isArray
        THEN JoinResults([k \in 1..Len(content.items) |-> RenderItem(content.items[k])])
        ELSE IF Truthy(githubRepo) /\ CommitExec(content.text, 1) # Undefined
             THEN Html(CommitParts(content.text, 1, githubRepo[1]))
             ELSE Html(Txt(content.text))
      className == IF block.is_error THEN "tool-result tool-error" ELSE "tool-result"
      Result(images, inner) ==
        IF images = "throw" \/ inner.thrown THEN TypeError
        ELSE IF images = "true"
             THEN Html(<<Element(className, inner.html)>>)
             ELSE Html(<<Element(className, <<Truncatable(inner.html)>>)>>)
  IN Result(hasImages, renderedContent)

(***************************************************************************)
(* renderContentBlock (render/content-blocks.tsx).                         *)
(***************************************************************************)
McpPrefix == <<"m", "c", "p", "_">>
WriteName == <<"w", "r", "i", "t", "e">>
EditName == <<"e", "d", "i", "t">>
BashName == <<"b", "a", "s", "h">>
TodoWriteName == <<"t", "o", "d", "o", "w", "r", "i", "t", "e">>
TodoReadName == <<"t", "o", "d", "o", "r", "e", "a", "d">>

Named(toolName, name) == toolName = name \/ toolName = McpPrefix \o name

renderContentBlock(block, githubRepo) ==
  LET toolName == toLowerCase(block.name)
      input == block.input
      todos == IF input.todos # Undefined /\ input.todos[1].isArray
               THEN [k \in 1..Len(input.todos[1].items) |-> MapTodo(input.todos[1].items[k])]
               ELSE <<>>
  IN CASE block.type = "thinking" -> Html(renderToHtml(ThinkingBlock(block)))
       [] block.type = "text" -> Html(renderToHtml(AssistantText(block.text)))
       [] block.type = "tool_use" ->
            IF Named(toolName, WriteName) THEN Html(renderToHtml(WriteToolBlock))
            ELSE IF Named(toolName, EditName) THEN Html(renderToHtml(EditToolBlock))
            ELSE IF Named(toolName, BashName) THEN Html(renderToHtml(BashToolBlock))
            ELSE IF Named(toolName, TodoWriteName)
                 THEN IF \E k \in 1..Len(todos) : todos[k] = Undefined
                      THEN TypeError
                      ELSE Html(renderToHtml(
                             TodoWriteBlock([k \in 1..Len(todos) |-> todos[k][1]])))
            ELSE Html(renderToHtml(ToolUse(block)))
       [] block.type = "tool_result" -> ToolResult(block, githubRepo)
       [] block.type = "image" -> ImageBlock(TRUE)
       [] OTHER ->
            Html(renderToHtml(
              Element("unknown-block",
                      <<Element("pre", Txt(PrettyJson(BlockMembers(block))))>>)))

(***************************************************************************)
(* Timestamps.  The model keeps the position of the entry; the string the  *)
(* program sees is an ISO time of day made from it, in which ":" and "."   *)
(* occur.                                                                  *)
(***************************************************************************)
TimestampText(ts) ==
  <<"1", "0", ":", "0", "0", ":">> \o padStart(ToDecimal(ts), 2, "0")
    \o <<".", "0", "0", "0", "Z">>

\* s.replace(/<class>/g, to) for a class of single characters
ReplaceAll(s, class, to) == [k \in 1..Len(s) |-> IF s[k] \in class THEN to ELSE s[k]]

(***************************************************************************)
(* render/message.tsx.                                                     *)
(***************************************************************************)
\* only the colons are replaced
makeMsgId_ColonsOnly(timestamp) ==
  <<"msg-">> \o ReplaceAll(timestamp, {":"}, "-")

makeMsgId(timestamp) ==
  <<"msg-">> \o ReplaceAll(ReplaceAll(timestamp, {":"}, "-"), {"."}, "-")

MessageComponent(roleClass, roleLabel, msgId, timestamp, contentHtml) ==
  Node("message " \o roleClass, msgId, <<>>, <<>>,
       << Element("message-header",
                  << Element("role-label", Txt(<<roleLabel>>)),
                     Node("timestamp-link", <<>>, <<"#">> \o msgId, <<>>,
                          <<Element("time", Txt(timestamp))>>) >>),
          Element("message-content", contentHtml) >>)

\* isJsonLike (render/markdown.ts)
isJsonLike(text) ==
  LET trimmed == Trim(text) IN
  /\ text # <<>>
  /\ trimmed # <<>>
  /\ \/ trimmed[1] = "{" /\ trimmed[Len(trimmed)] = "}"
     \/ trimmed[1] = "[" /\ trimmed[Len(trimmed)] = "]"

\* formatJson (render/markdown.ts): a <pre> of the text, re-indented when
\* it parses
formatJson(value) == <<Node("pre", <<>>, <<>>, value, <<>>)>>

\* UserContent (render/content-blocks.tsx): blocks are rendered without the
\* repository
UserContent(content) ==
  IF content.kind = "array"
  THEN LET Wrap(html) ==
             IF html.thrown THEN TypeError
             ELSE Html(renderToHtml(Element("user-content", html.html)))
       IN Wrap(JoinResults([k \in 1..Len(content.blocks) |->
                              renderContentBlock(content.blocks[k], Undefined)]))
  ELSE IF isJsonLike(content.text)
       THEN Html(renderToHtml(Element("user-content", formatJson(content.text))))
       ELSE Html(renderToHtml(Element("user-content", renderMarkdown(content.text))))

renderAssistantMessage(message, githubRepo) ==
  LET content == message.content IN
  IF content.kind # "array"
  THEN Html(<<Node("p", <<>>, <<>>, content.text, <<>>)>>)
  ELSE JoinResults([k \in 1..Len(content.blocks) |->
                      renderContentBlock(content.blocks[k], githubRepo)])

\* every user message whose content is an array is a tool reply
roleClass_AnyArray(logType, messageData) ==
  IF logType = "user"
  THEN IF messageData.content.kind = "array" THEN "tool-reply" ELSE "user"
  ELSE "assistant"

roleClass(logType, messageData) ==
  IF logType = "user"
  THEN IF isToolResultMessage(messageData) THEN "tool-reply" ELSE "user"
  ELSE "assistant"

\* every user-type message is labelled as a prompt
roleLabel_ByType(logType, messageData) ==
  IF logType = "user" THEN "User" ELSE "Assistant"

roleLabel(logType, messageData) ==
  IF logType = "user"
  THEN IF isToolResultMessage(messageData) THEN "Tool reply" ELSE "User"
  ELSE "Assistant"

renderMessage(logType, messageJson, timestamp, githubRepo) ==
  IF messageJson = <<>> THEN Html(<<>>)
  ELSE LET messageData == JSONparse(messageJson)
           Wrap(contentHtml) ==
             IF contentHtml.thrown THEN TypeError
             ELSE IF IsBlankHtml(contentHtml.html) THEN Html(<<>>)
             ELSE Html(renderToHtml(
                    MessageComponent(roleClass(logType, messageData),
                                     roleLabel(logType, messageData),
                                     makeMsgId(timestamp), timestamp, contentHtml.html)))
       IN Wrap(IF logType = "user"
               THEN UserContent(messageData.content)
               ELSE renderAssistantMessage(messageData, githubRepo))

(***************************************************************************)
(* Pagination and IndexPagination (render/pagination.tsx).                 *)
(***************************************************************************)
IndexLink == Node("index-link", <<>>, IndexHtml, <<>>, Txt(<<"Index">>))
Disabled(label) == Element("disabled", Txt(<<label>>))

\* Next is a link on every page
Pagination_NextAlways(currentPage, totalPages) ==
  IF totalPages <= 1 THEN Element("pagination", <<IndexLink>>)
  ELSE Element("pagination",
         << IndexLink,
            (IF currentPage > 1
             THEN Anchor(getPageFilename(currentPage - 1), Txt(<<"Prev">>))
             ELSE Disabled("Prev")) >>
         \o [page \in 1..totalPages |->
               IF page = currentPage
               THEN Element("current", Txt(ToDecimal(page)))
               ELSE Anchor(getPageFilename(page), Txt(ToDecimal(page)))]
         \o << Anchor(getPageFilename(currentPage + 1), Txt(<<"Next">>)) >>)

Pagination(currentPage, totalPages) ==
  IF totalPages <= 1 THEN Element("pagination", <<IndexLink>>)
  ELSE Element("pagination",
         << IndexLink,
            (IF currentPage > 1
             THEN Anchor(getPageFilename(currentPage - 1), Txt(<<"Prev">>))
             ELSE Disabled("Prev")) >>
         \o [page \in 1..totalPages |->
               IF page = currentPage
               THEN Element("current", Txt(ToDecimal(page)))
               ELSE Anchor(getPageFilename(page), Txt(ToDecimal(page)))]
         \o << (IF currentPage < totalPages
                THEN Anchor(getPageFilename(currentPage + 1), Txt(<<"Next">>))
                ELSE Disabled("Next")) >>)

IndexPagination(totalPages) ==
  IF totalPages < 1 THEN Element("pagination", <<Element("current", Txt(<<"Index">>))>>)
  ELSE Element("pagination",
         << Element("current", Txt(<<"Index">>)), Disabled("Prev") >>
         \o [page \in 1..totalPages |-> Anchor(getPageFilename(page), Txt(ToDecimal(page)))]
         \o << (IF totalPages >= 1
                THEN Anchor(getPageFilename(1), Txt(<<"Next">>))
                ELSE Disabled("Next")) >>)

\* parts.join("\n")
RECURSIVE JoinLines(_)
JoinLines(parts) ==
  IF parts = <<>> THEN <<>>
  ELSE IF Len(parts) = 1 THEN Head(parts)
  ELSE Head(parts) \o <<TextNode(<<"\n">>)>> \o JoinLines(Tail(parts))

\* the non-empty strings of a list
RECURSIVE NonEmpty(_)
NonEmpty(parts) ==
  IF parts = <<>> THEN <<>>
  ELSE (IF Head(parts) = <<>> THEN <<>> ELSE <<Head(parts)>>) \o NonEmpty(Tail(parts))

(***************************************************************************)
(* The commit pattern of the analyzer and of findConversationCommits:      *)
(*   \[ branch \s+ hash \] \s+ message                                     *)
(* with branch [^\]]+, hash [0-9a-f]{7,} and message any run of characters *)
(* other than line terminators, all greedy and without the g flag.  The    *)
(* branch holds no "]", so the "]" of a match at i is the first one after  *)
(* i; the hash is the whole run of hex digits in front of it, the greedy   *)
(* branch leaves one white space to \s+, the \s+ after "]" takes all the   *)
(* white space, line breaks too, and the message is the rest of that line. *)
(***************************************************************************)
\* the first position at or after i that holds ch, Len(s) + 1 if none
RECURSIVE IndexOf(_, _, _)
IndexOf(s, i, ch) ==
  IF i > Len(s) \/ s[i] = ch THEN i ELSE IndexOf(s, i + 1, ch)

\* length of the longest run of characters of `class' that ends at s[k]
RECURSIVE BackRunLength(_, _, _)
BackRunLength(s, k, class) ==
  IF k >= 1 /\ s[k] \in class THEN 1 + BackRunLength(s, k - 1, class) ELSE 0

AnalyzerMatchAt(s, i) ==
  LET n == Len(s)
      close == IndexOf(s, i + 1, "]")
      hash == BackRunLength(s, close - 1, HexChars)
      space == close - hash - 1
      gap == RunLength(s, close + 1, WhiteSpace)
      start == close + 1 + gap
      stop == LineEnd(s, start)
  IN IF /\ i <= n /\ s[i] = "["
        /\ close <= n
        /\ hash >= MinHashLength
        /\ space >= i + 2 /\ s[space] \in WhiteSpace
        /\ gap >= 1
     THEN Some([index |-> i, end |-> stop,
                hash |-> SubSeq(s, close - hash, close - 1),
                message |-> SubSeq(s, start, stop - 1)])
     ELSE Undefined

\* contentStr.match(pattern): the leftmost match at or after `from'
RECURSIVE AnalyzerMatch(_, _)
AnalyzerMatch(s, from) ==
  LET Try(match) == IF match # Undefined THEN match ELSE AnalyzerMatch(s, from + 1)
  IN IF from > Len(s) THEN Undefined ELSE Try(AnalyzerMatchAt(s, from))

\* JSON.stringify(content) of a tool-result array
RECURSIVE StringifyItems(_)
StringifyItems(items) ==
  IF items = <<>> THEN <<>>
  ELSE JSONstringifyItem(Head(items))
       \o (IF Len(items) > 1 THEN <<",">> ELSE <<>>)
       \o StringifyItems(Tail(items))

ResultText(content) ==
  IF content.kind = "string" THEN content.text
  ELSE <<"[">> \o StringifyItems(content.items) \o <<"]">>

\* the commit records one tool-result block adds: the first match, if it
\* has a message
CommitsOfBlock(block, timestamp) ==
  LET Record(match) ==
        IF match # Undefined /\ match[1].hash # <<>> /\ match[1].message # <<>>
        THEN <<[hash |-> match[1].hash, message |-> Trim(match[1].message),
                timestamp |-> timestamp]>>
        ELSE <<>>
  IN Record(AnalyzerMatch(ResultText(block.content), 1))

(***************************************************************************)
(* Tool counts: a Map from name to count, kept in insertion order.         *)
(***************************************************************************)
\* toolCounts.set(name, (toolCounts.get(name) || 0) + 1)
Increment(toolCounts, name) ==
  IF \E k \in 1..Len(toolCounts) : toolCounts[k].name = name
  THEN [k \in 1..Len(toolCounts) |->
          IF toolCounts[k].name = name
          THEN [toolCounts[k] EXCEPT !.count = @ + 1]
          ELSE toolCounts[k]]
  ELSE Append(toolCounts, [name |-> name, count |-> 1])

\* entries.sort((a, b) => b[1] - a[1]): by count, descending, stable
RECURSIVE InsertByCount(_, _)
InsertByCount(sorted, entry) ==
  IF sorted = <<>> THEN <<entry>>
  ELSE IF Head(sorted).count >= entry.count
       THEN <<Head(sorted)>> \o InsertByCount(Tail(sorted), entry)
       ELSE <<entry>> \o sorted

RECURSIVE SortByCount(_)
SortByCount(entries) ==
  IF entries = <<>> THEN <<>>
  ELSE InsertByCount(SortByCount(SubSeq(entries, 1, Len(entries) - 1)),
                     entries[Len(entries)])

\* normalizeToolName (render/transcript.tsx)
StripMcp(name) ==
  IF Len(name) >= Len(McpPrefix) /\ SubSeq(name, 1, Len(McpPrefix)) = McpPrefix
  THEN SubSeq(name, Len(McpPrefix) + 1, Len(name))
  ELSE name

normalizeToolName(name) ==
  LET normalized == StripMcp(toLowerCase(name)) IN
  IF normalized \in {TodoWriteName, TodoReadName} THEN <<"t", "o", "d", "o">>
  ELSE normalized

(***************************************************************************)
(* analyzeConversation (render/index-page.tsx).                            *)
(***************************************************************************)
LongTextLimit == 500
LongPreviewLength == 200

LongText(type, text, timestamp) ==
  IF Len(text) > LongTextLimit
  THEN <<[type |-> type,
          preview |-> SubSeq(text, 1, LongPreviewLength) \o <<".", ".", ".">>,
          full |-> text, timestamp |-> timestamp]>>
  ELSE <<>>

\* the first of input.content, input.newString, input.replacement that is a
\* string
TextToCheck(input) ==
  IF input.content # Undefined THEN input.content[1]
  ELSE IF input.newString # Undefined THEN input.newString[1]
  ELSE IF input.replacement # Undefined THEN input.replacement[1]
  ELSE <<>>

\* the body of the loop over the blocks of one entry
AnalyzeBlock(acc, block, timestamp) ==
  IF block.type = "tool_use"
  THEN [acc EXCEPT !.toolCounts = Increment(@, block.name),
                   !.longTexts = @ \o LongText(block.name, TextToCheck(block.input), timestamp)]
  ELSE IF block.type = "thinking"
  THEN [acc EXCEPT !.longTexts = @ \o LongText(<<"thinking">>, block.thinking, timestamp)]
  ELSE IF block.type = "tool_result"
  THEN [acc EXCEPT !.commits = @ \o CommitsOfBlock(block, timestamp)]
  ELSE acc

RECURSIVE AnalyzeBlocks(_, _, _)
AnalyzeBlocks(acc, blocks, timestamp) ==
  IF blocks = <<>> THEN acc
  ELSE AnalyzeBlocks(AnalyzeBlock(acc, Head(blocks), timestamp), Tail(blocks), timestamp)

\* the body of the loop over the entries: only the nested message is read
AnalyzeLogline(acc, logline) ==
  IF logline.message = Undefined THEN acc
  ELSE LET content == logline.message[1].content IN
       IF content.kind = "string" /\ content.text = <<>> THEN acc
       ELSE AnalyzeBlocks(acc,
                          IF content.kind = "array" THEN content.blocks
                          ELSE <<TextBlock(content.text)>>,
                          logline.timestamp)

RECURSIVE AnalyzeFold(_, _)
AnalyzeFold(acc, ls) ==
  IF ls = <<>> THEN acc ELSE AnalyzeFold(AnalyzeLogline(acc, Head(ls)), Tail(ls))

EmptyAnalysis == [toolCounts |-> <<>>, commits |-> <<>>, longTexts |-> <<>>]

analyzeConversation(ls) == AnalyzeFold(EmptyAnalysis, ls)

(***************************************************************************)
(* The per-conversation figures of the index (render/transcript.tsx).      *)
(***************************************************************************)
MiddleDot == <<" ", "&middot;", " ">>

RECURSIVE CountToolUses(_, _)
CountToolUses(toolCounts, blocks) ==
  IF blocks = <<>> THEN toolCounts
  ELSE CountToolUses(
         IF Head(blocks).type = "tool_use" /\ Head(blocks).name # <<>>
         THEN Increment(toolCounts, normalizeToolName(Head(blocks).name))
         ELSE toolCounts,
         Tail(blocks))

RECURSIVE ConversationToolCounts(_, _)
ConversationToolCounts(toolCounts, messages) ==
  IF messages = <<>> THEN toolCounts
  ELSE LET msg == Head(messages)
           content == JSONparse(msg.messageJson).content
       IN ConversationToolCounts(
            IF msg.type = "assistant" /\ content.kind = "array"
            THEN CountToolUses(toolCounts, content.blocks)
            ELSE toolCounts,
            Tail(messages))

RECURSIVE JoinStats(_)
JoinStats(sorted) ==
  IF sorted = <<>> THEN <<>>
  ELSE ToDecimal(Head(sorted).count) \o <<" ">> \o Head(sorted).name
       \o (IF Len(sorted) > 1 THEN MiddleDot ELSE <<>>)
       \o JoinStats(Tail(sorted))

formatConversationToolStats(messages) ==
  JoinStats(SortByCount(ConversationToolCounts(<<>>, messages)))

RECURSIVE CommitsOfBlocks(_, _)
CommitsOfBlocks(blocks, timestamp) ==
  IF blocks = <<>> THEN <<>>
  ELSE (IF Head(blocks).type = "tool_result"
        THEN CommitsOfBlock(Head(blocks), timestamp)
        ELSE <<>>)
       \o CommitsOfBlocks(Tail(blocks), timestamp)

RECURSIVE findConversationCommits(_)
findConversationCommits(messages) ==
  IF messages = <<>> THEN <<>>
  ELSE LET msg == Head(messages)
           content == JSONparse(msg.messageJson).content
       IN (IF content.kind = "array"
           THEN CommitsOfBlocks(content.blocks, msg.timestamp)
           ELSE <<>>)
          \o findConversationCommits(Tail(messages))

RECURSIVE FirstNonBlankText(_)
FirstNonBlankText(blocks) ==
  IF blocks = <<>> THEN Undefined
  ELSE IF Head(blocks).type = "text" /\ Trim(Head(blocks).text) # <<>>
       THEN Some(Head(blocks).text)
       ELSE FirstNonBlankText(Tail(blocks))

RECURSIVE getFirstAssistantText(_)
getFirstAssistantText(messages) ==
  IF messages = <<>> THEN Undefined
  ELSE LET msg == Head(messages)
           content == JSONparse(msg.messageJson).content
           found == IF msg.type = "assistant" /\ content.kind = "array"
                    THEN FirstNonBlankText(content.blocks)
                    ELSE Undefined
       IN IF found # Undefined THEN found ELSE getFirstAssistantText(Tail(messages))

(***************************************************************************)
(* The components of the index (render/index-page.tsx).                    *)
(***************************************************************************)
IndexPageNumWidth == 3

IndexItemLongText(htmlContent) ==
  Element("index-item-long-text",
          <<Truncatable(<<Element("index-item-long-text-content", htmlContent)>>)>>)

IndexItem(promptNum, num, timestamp, contentPreview, toolStats, assistantPreviewHtml) ==
  LET pageFile == PagePrefix \o padStart(ToDecimal(num), IndexPageNumWidth, "0")
                    \o HtmlSuffix
      msgId == <<"msg-">> \o ReplaceAll(timestamp, {":", "."}, "-")
  IN Element("index-item",
       << Anchor(pageFile \o <<"#">> \o msgId,
                 << Element("index-item-header",
                            << Element("index-item-number",
                                       Txt(<<"#">> \o ToDecimal(promptNum))),
                               Element("time", Txt(timestamp)) >>),
                    Element("index-item-content",
                            <<Element("p", Txt(contentPreview))>>) >>) >>
       \o (IF toolStats # <<>> \/ assistantPreviewHtml # <<>>
           THEN <<Element("index-item-stats",
                    (IF toolStats # <<>> THEN <<Element("span", Txt(toolStats))>> ELSE <<>>)
                    \o (IF assistantPreviewHtml # <<>>
                        THEN <<IndexItemLongText(assistantPreviewHtml)>>
                        ELSE <<>>))>>
           ELSE <<>>))

IndexCommit(hash, message, timestamp, githubRepo) ==
  LET content ==
        << Element("index-commit-header",
                   <<Element("index-commit-hash", Txt(hash)),
                     Element("time", Txt(timestamp))>>),
           Element("index-commit-msg", Txt(message)) >>
  IN Element("index-commit",
       IF Truthy(githubRepo)
       THEN <<Anchor(<<"https://github.com/">> \o githubRepo[1] \o <<"/commit/">> \o hash,
                     content)>>
       ELSE content)

Plural(n, noun) == ToDecimal(n) \o <<" ", noun>> \o (IF n # 1 THEN <<"s">> ELSE <<>>)

IndexSummary(promptCount, messageCount, toolCallCount, commitCount, pageCount) ==
  Element("p",
    Txt(Plural(promptCount, "prompt") \o MiddleDot
        \o Plural(messageCount, "message") \o MiddleDot
        \o Plural(toolCallCount, "tool call") \o MiddleDot
        \o Plural(commitCount, "commit") \o MiddleDot
        \o Plural(pageCount, "page")))

(***************************************************************************)
(* renderPage and renderIndexPage (render/transcript.tsx).  A document is  *)
(* kept as the arguments its assembler was called with and the HTML put    *)
(* into the container of the base document; `thrown' says that a block     *)
(* renderer raised and no document was made.                               *)
(***************************************************************************)
RECURSIVE Sum(_)
Sum(counts) == IF counts = <<>> THEN 0 ELSE Head(counts).count + Sum(Tail(counts))

RECURSIVE CountTurns(_)
CountTurns(ls) ==
  IF ls = <<>> THEN 0
  ELSE (IF Head(ls).type \in {"user", "assistant"} THEN 1 ELSE 0) + CountTurns(Tail(ls))

\* one callback of conversations.map in renderIndexPage
IndexEntry(conversation, index, githubRepo) ==
  LET toolStats == formatConversationToolStats(conversation.messages)
      Preview(assistantText) ==
        IF assistantText # Undefined THEN renderMarkdown(assistantText[1]) ELSE <<>>
      itemHtml ==
        renderToHtml(IndexItem(index + 1, index \div PROMPTS_PER_PAGE + 1,
                               TimestampText(conversation.timestamp),
                               conversation.userText, toolStats,
                               Preview(getFirstAssistantText(conversation.messages))))
      Cards(commits) ==
        JoinLines([k \in 1..Len(commits) |->
                     renderToHtml(IndexCommit(
                       SubSeq(commits[k].hash, 1, ShortHashLength), commits[k].message,
                       TimestampText(commits[k].timestamp), githubRepo))])
      WithCommits(commitsHtml) ==
        itemHtml \o (IF commitsHtml # <<>> THEN <<TextNode(<<"\n">>)>> \o commitsHtml
                     ELSE <<>>)
  IN WithCommits(Cards(findConversationCommits(conversation.messages)))

renderIndexPage(convs, ls, total, githubRepo) ==
  LET found == analyzeConversation(ls)
      paginationHtml == renderToHtml(IndexPagination(total))
      summaryHtml ==
        renderToHtml(IndexSummary(Len(convs), CountTurns(ls), Sum(found.toolCounts),
                                  Len(found.commits), total))
      itemsWithCommitsHtml ==
        JoinLines([k \in 1..Len(convs) |-> IndexEntry(convs[k], k - 1, githubRepo)])
  IN [kind |-> "index", pageNum |-> 0, totalPages |-> total, conversations |-> convs,
      thrown |-> FALSE,
      body |-> JoinLines(NonEmpty(<<paginationHtml, summaryHtml, itemsWithCommitsHtml>>))]

\* the closing pagination control is left out
renderPage_NoBottom(pageConversations, num, total, githubRepo) ==
  LET messages == Concat([k \in 1..Len(pageConversations) |-> pageConversations[k].messages])
      paginationTop == renderToHtml(Pagination(num, total))
      Page(results) ==
        [kind |-> "page", pageNum |-> num, totalPages |-> total,
         conversations |-> pageConversations,
         thrown |-> \E j \in 1..Len(messages) : results[j].thrown,
         body |-> IF \E j \in 1..Len(messages) : results[j].thrown THEN <<>>
                  ELSE JoinLines(<<paginationTop>>
                                 \o NonEmpty([j \in 1..Len(messages) |-> results[j].html]))]
  IN Page([j \in 1..Len(messages) |->
             renderMessage(messages[j].type, messages[j].messageJson,
                           TimestampText(messages[j].timestamp), githubRepo)])

renderPage(pageConversations, num, total, githubRepo) ==
  LET messages == Concat([k \in 1..Len(pageConversations) |-> pageConversations[k].messages])
      paginationTop == renderToHtml(Pagination(num, total))
      paginationBottom == renderToHtml(Pagination(num, total))
      Page(results) ==
        [kind |-> "page", pageNum |-> num, totalPages |-> total,
         conversations |-> pageConversations,
         thrown |-> \E j \in 1..Len(messages) : results[j].thrown,
         body |-> IF \E j \in 1..Len(messages) : results[j].thrown THEN <<>>
                  ELSE JoinLines(<<paginationTop>>
                                 \o NonEmpty([j \in 1..Len(messages) |-> results[j].html])
                                 \o <<paginationBottom>>)]
  IN Page([j \in 1..Len(messages) |->
             renderMessage(messages[j].type, messages[j].messageJson,
                           TimestampText(messages[j].timestamp), githubRepo)])

(***************************************************************************)
(* renderTranscript (render/transcript.tsx): the file map.                 *)
(***************************************************************************)
NoFiles == [name \in {} |-> {}]

MapSet(map, key, value) ==
  [name \in DOMAIN map \cup {key} |-> IF name = key THEN value ELSE map[name]]

\* pages.forEach((pageConversations, index) => files.set(...)), first n pages
RECURSIVE SetPages(_, _, _, _, _)
SetPages(map, ps, total, n, githubRepo) ==
  IF n = 0 THEN map
  ELSE MapSet(SetPages(map, ps, total, n - 1, githubRepo),
              getPageFilename(n), renderPage(ps[n], n, total, githubRepo))

renderTranscript(ls, githubRepo) ==
  LET convs == groupLoglinesToConversations(ls)
      ps == paginateConversations(convs, PROMPTS_PER_PAGE)
      total == Len(ps)
      Output(all) ==
        [conversations |-> convs, pages |-> ps, totalPages |-> total,
         thrown |-> \E name \in DOMAIN all : all[name].thrown,
         files |-> IF \E name \in DOMAIN all : all[name].thrown THEN NoFiles ELSE all]
  IN Output(SetPages(MapSet(NoFiles, IndexHtml,
                            renderIndexPage(convs, ls, total, githubRepo)),
                     ps, total, total, githubRepo))

(***************************************************************************)
(* Input text (parse.ts).  A text -- a line, or the whole file -- is kept  *)
(* as what JSON.parse makes of it: "blank" (only whitespace, the empty     *)
(* string after trim), "invalid" (JSON.parse throws), or a JSON value that *)
(* is a "primitive" (number, string, boolean, null), an "array" or an      *)
(* "object".  Of an object the model keeps the fields the loader and the   *)
(* schemas look at: type ("" when the key is missing), timestamp, message, *)
(* content and the top-level loglines key.                                 *)
(***************************************************************************)
NoLoglinesKey == [has |-> FALSE, isArray |-> FALSE, items |-> <<>>]
LoglinesNotArray == [has |-> TRUE, isArray |-> FALSE, items |-> <<>>]
LoglinesArray(items) == [has |-> TRUE, isArray |-> TRUE, items |-> items]

JsonObject(ty, msg, c, ll) ==
  [json |-> "object", type |-> ty, timestamp |-> 0, message |-> msg, content |-> c,
   loglinesKey |-> ll]

Text(kind) ==
  [json |-> kind, type |-> "", timestamp |-> 0, message |-> Undefined,
   content |-> Undefined, loglinesKey |-> NoLoglinesKey]

LoglineTypes == {"user", "assistant", "summary", "tool_use", "tool_result"}
BlockTypes == {"text", "thinking", "image", "tool_use", "tool_result"}

\* MessageContentSchema: a string or an array of content blocks
MessageContentSchema(c) ==
  \/ c.kind = "string"
  \/ /\ c.kind = "array"
     /\ \A k \in DOMAIN c.blocks : c.blocks[k].type \in BlockTypes

\* LoglineSchema.safeParse(value): the parsed entry, unknown keys stripped,
\* or Undefined when validation fails
LoglineSchema(value) ==
  IF value.json # "object" THEN Undefined
  ELSE IF value.type \notin LoglineTypes THEN Undefined
  ELSE IF value.message # Undefined /\ ~MessageContentSchema(value.message[1].content)
       THEN Undefined
  ELSE IF value.content # Undefined /\ ~MessageContentSchema(value.content[1])
       THEN Undefined
  ELSE Some(Logline(value.type, value.timestamp, value.message, value.content, FALSE))

Thrown == [ok |-> FALSE, loglines |-> <<>>]
Loaded(ls) == [ok |-> TRUE, loglines |-> ls]

RECURSIVE ParseEach(_)
ParseEach(items) ==
  IF items = <<>> THEN <<>>
  ELSE LoglineSchema(Head(items)) \o ParseEach(Tail(items))

\* invalid entries are left out instead of failing the document
SessionDataSchema_Salvage(data) ==
  IF data.json # "object" THEN Thrown
  ELSE IF ~data.loglinesKey.has \/ ~data.loglinesKey.isArray THEN Thrown
  ELSE Loaded(ParseEach(data.loglinesKey.items))

\* SessionDataSchema.parse(data)
SessionDataSchema(data) ==
  IF data.json # "object" THEN Thrown
  ELSE IF ~data.loglinesKey.has \/ ~data.loglinesKey.isArray THEN Thrown
  ELSE IF \E k \in DOMAIN data.loglinesKey.items :
             LoglineSchema(data.loglinesKey.items[k]) = Undefined
       THEN Thrown
  ELSE Loaded(ParseEach(data.loglinesKey.items))

\* parseJson(content): JSON.parse of the whole text, then the schema
parseJson(whole) ==
  IF whole.json \in {"blank", "invalid"} THEN Thrown
  ELSE SessionDataSchema(whole)

\* the first line that is not blank is probed
isJsonl_FirstNonBlank(lines) ==
  LET nonBlank == SelectSeq(lines, LAMBDA l : l.json # "blank") IN
  IF nonBlank = <<>> THEN FALSE
  ELSE IF nonBlank[1].json = "invalid" THEN FALSE
  ELSE IF nonBlank[1].json = "primitive" THEN FALSE
  ELSE ~nonBlank[1].loglinesKey.has

\* isJsonl(content): content.split("\n")[0].trim(); JSON.parse throwing and
\* the `in' operator throwing on a primitive are both caught
isJsonl(lines) ==
  LET firstLine == lines[1] IN
  IF firstLine.json = "blank" THEN FALSE
  ELSE IF firstLine.json = "invalid" THEN FALSE
  ELSE IF firstLine.json = "primitive" THEN FALSE
  ELSE ~firstLine.loglinesKey.has

\* every entry that passes the schema is kept, whatever its type
RECURSIVE parseJsonl_NoTypeFilter(_)
parseJsonl_NoTypeFilter(lines) ==
  IF lines = <<>> THEN <<>>
  ELSE LET line == Head(lines)
           rest == parseJsonl_NoTypeFilter(Tail(lines))
       IN IF line.json = "blank" THEN rest
          ELSE IF line.json = "invalid" THEN rest
          ELSE LET parsed == LoglineSchema(line) IN
               IF parsed # Undefined THEN parsed \o rest ELSE rest

\* parseJsonl(content): the loglines pushed by the loop over the lines
RECURSIVE parseJsonl(_)
parseJsonl(lines) ==
  IF lines = <<>> THEN <<>>
  ELSE LET line == Head(lines)
           rest == parseJsonl(Tail(lines))
       IN IF line.json = "blank" THEN rest
          ELSE IF line.json = "invalid" THEN rest
          ELSE LET parsed == LoglineSchema(line) IN
               IF parsed # Undefined /\ parsed[1].type \in {"user", "assistant"}
               THEN parsed \o rest
               ELSE rest

(***************************************************************************)
(* State.                                                                  *)
(***************************************************************************)
VARIABLES
  pc,             \* position in the call being modelled
  loglines,       \* session.loglines
  idx,            \* number of entries the grouping loop has consumed
  conversations,  \* the grouper's result list
  current,        \* index of the open conversation, 0 for null
  pidx,           \* number of conversations the pagination loop has consumed
  pages,          \* paginateConversations: the pages pushed so far
  currentPage,    \* paginateConversations: the page being filled
  totalPages,     \* renderTranscript: pages.length
  files,          \* renderTranscript: the file map
  pageNum,        \* argument of getPageFilename
  filename,       \* result of getPageFilename
  file,           \* the input file: path extension and text
  mode,           \* the parser parseSessionFile chose
  block,          \* argument of renderContentBlock
  githubRepo,     \* options.githubRepo, undefined when not configured
  rendered,       \* result of renderContentBlock
  args,           \* process.argv.slice(2)
  exitCode,       \* the status the process ended with, -1 while it runs
  printed,        \* what the CLI wrote to stdout and stderr
  disk,           \* names of the files in the output directory
  analysis,       \* result of analyzeConversation
  stats           \* per conversation: tool statistics and commits

groupVars == <<loglines, idx, conversations, current>>
pageVars == <<pidx, pages, currentPage, totalPages>>
nameVars == <<pageNum, filename>>
fileVars == <<file, mode>>
blockVars == <<block, githubRepo, rendered>>
cliVars == <<args, exitCode, printed, disk>>
indexVars == <<analysis, stats>>
extVars == <<blockVars, cliVars, indexVars>>
vars == <<pc, groupVars, pageVars, files, nameVars, fileVars, extVars>>

NoFile == [exists |-> FALSE, jsonlExt |-> FALSE, lines |-> <<Text("blank")>>,
           whole |-> Text("blank")]

Idle ==
  /\ idx = 0 /\ conversations = <<>> /\ current = 0
  /\ pidx = 0 /\ pages = <<>> /\ currentPage = <<>> /\ totalPages = 0
  /\ files = NoFiles
  /\ pageNum = 0 /\ filename = <<>>
  /\ mode = "none"

IdleBlock == block = Block("text") /\ githubRepo = Undefined /\ rendered = Html(<<>>)
IdleCli == args = <<>> /\ exitCode = -1 /\ printed = <<>> /\ disk = {}
IdleIndex == analysis = EmptyAnalysis /\ stats = <<>>
IdleExt == IdleBlock /\ IdleCli /\ IdleIndex

(***************************************************************************)
(* Entries the grouper is run on.                                          *)
(***************************************************************************)
TextHi == <<"h", "i">>

Contents ==
  { StringContent(TextHi),
    ArrayContent(<<>>),
    ArrayContent(<<ToolResultBlock>>),
    ArrayContent(<<ToolResultBlock, ToolResultBlock>>),
    ArrayContent(<<ToolResultBlock, TextBlock(TextHi)>>) }

EntryShapes ==
     { Logline("user", 0, Some(Message(c)), Undefined, FALSE) : c \in Contents }
  \cup { Logline("user", 0, Some(Message(StringContent(TextHi))),
                 Some(ArrayContent(<<ToolResultBlock>>)), TRUE),
         Logline("user", 0, Undefined, Undefined, FALSE),
         Logline("assistant", 0, Some(Message(ArrayContent(<<ToolUseBlock>>))),
                 Undefined, FALSE),
         Logline("assistant", 0, Undefined, Some(ArrayContent(<<TextBlock(TextHi)>>)),
                 FALSE),
         Logline("summary", 0, Some(Message(StringContent(TextHi))), Undefined, FALSE) }

Stamp(shapes) == [k \in 1..Len(shapes) |-> [shapes[k] EXCEPT !.timestamp = k]]

(***************************************************************************)
(* The grouping loop, one entry per step.                                  *)
(***************************************************************************)
Init ==
  /\ pc = "group"
  /\ \E shapes \in SeqsUpTo(EntryShapes, MaxLoglines) : loglines = Stamp(shapes)
  /\ file = NoFile
  /\ Idle
  /\ IdleExt

Entry == loglines[idx + 1]

Consume ==
  LET st == GroupStep([conversations |-> conversations, current |-> current], Entry)
  IN /\ conversations' = st.conversations
     /\ current' = st.current
     /\ idx' = idx + 1
     /\ UNCHANGED <<pc, loglines, pageVars, files, nameVars, fileVars, extVars>>

InLoop == pc = "group" /\ idx < Len(loglines)

SkipType ==
  /\ InLoop
  /\ Entry.type \notin {"user", "assistant"}
  /\ Consume

SkipNoMessage ==
  /\ InLoop
  /\ Entry.type \in {"user", "assistant"}
  /\ getMessageFromLogline(Entry) = Undefined
  /\ Consume

UserEntry ==
  /\ InLoop
  /\ Entry.type = "user"
  /\ getMessageFromLogline(Entry) # Undefined
  /\ Consume

AssistantEntry ==
  /\ InLoop
  /\ Entry.type = "assistant"
  /\ getMessageFromLogline(Entry) # Undefined
  /\ Consume

GroupReturn ==
  /\ pc = "group"
  /\ idx = Len(loglines)
  /\ pc' = "grouped"
  /\ UNCHANGED <<groupVars, pageVars, files, nameVars, fileVars, extVars>>

Next == SkipType \/ SkipNoMessage \/ UserEntry \/ AssistantEntry \/ GroupReturn

Spec == Init /\ [][Next]_vars

(***************************************************************************)
(* renderTranscript, step by step: the grouper as one call, then the       *)
(* pagination loop one conversation per step, then files.set for the index *)
(* and for each page.                                                      *)
(***************************************************************************)
RenderShapes ==
  { Logline("user", 0, Some(Message(StringContent(TextHi))), Undefined, FALSE),
    Logline("assistant", 0, Undefined, Some(ArrayContent(<<TextBlock(TextHi)>>)), FALSE) }

InitRender ==
  /\ pc = "render"
  /\ \E shapes \in SeqsUpTo(RenderShapes, MaxRenderLoglines) : loglines = Stamp(shapes)
  /\ file = NoFile
  /\ Idle
  /\ IdleExt

RenderGroup ==
  /\ pc = "render"
  /\ LET st == GroupFold(EmptyFold, loglines)
     IN /\ conversations' = st.conversations
        /\ current' = st.current
  /\ idx' = Len(loglines)
  /\ pc' = "paginate"
  /\ UNCHANGED <<loglines, pageVars, files, nameVars, fileVars, extVars>>

PaginateLoop ==
  /\ pc = "paginate"
  /\ pidx < Len(conversations)
  /\ LET st == PaginateStep([pages |-> pages, currentPage |-> currentPage],
                            conversations[pidx + 1], PROMPTS_PER_PAGE)
     IN /\ pages' = st.pages
        /\ currentPage' = st.currentPage
  /\ pidx' = pidx + 1
  /\ UNCHANGED <<pc, groupVars, totalPages, files, nameVars, fileVars, extVars>>

PaginateReturn ==
  /\ pc = "paginate"
  /\ pidx = Len(conversations)
  /\ pages' = PaginateFinish([pages |-> pages, currentPage |-> currentPage])
  /\ totalPages' = Len(pages')
  /\ pc' = "index"
  /\ UNCHANGED <<groupVars, pidx, currentPage, files, nameVars, fileVars, extVars>>

SetIndex ==
  /\ pc = "index"
  /\ files' = MapSet(files, IndexHtml, renderIndexPage(conversations, loglines, totalPages,
                                                     githubRepo))
  /\ pageNum' = 0
  /\ pc' = "pages"
  /\ UNCHANGED <<groupVars, pageVars, filename, fileVars, extVars>>

\* one callback of pages.forEach; pageNum holds the index of the next page
SetPage ==
  /\ pc = "pages"
  /\ pageNum < Len(pages)
  /\ pageNum' = pageNum + 1
  /\ filename' = getPageFilename(pageNum')
  /\ \E document \in {renderPage(pages[pageNum'], pageNum', totalPages, githubRepo)} :
        IF document.thrown
        THEN pc' = "failed" /\ files' = NoFiles
        ELSE pc' = pc /\ files' = MapSet(files, filename', document)
  /\ UNCHANGED <<groupVars, pageVars, fileVars, extVars>>

RenderReturn ==
  /\ pc = "pages"
  /\ pageNum = Len(pages)
  /\ pc' = "rendered"
  /\ UNCHANGED <<groupVars, pageVars, files, nameVars, fileVars, extVars>>

NextRender ==
  RenderGroup \/ PaginateLoop \/ PaginateReturn \/ SetIndex \/ SetPage \/ RenderReturn

SpecRender == InitRender /\ [][NextRender]_vars

(***************************************************************************)
(* getPageFilename on its own.                                             *)
(***************************************************************************)
InitFilename ==
  /\ pc = "name"
  /\ loglines = <<>>
  /\ idx = 0 /\ conversations = <<>> /\ current = 0
  /\ pidx = 0 /\ pages = <<>> /\ currentPage = <<>> /\ totalPages = 0
  /\ files = NoFiles
  /\ pageNum \in 1..MaxPageNum
  /\ filename = <<>>
  /\ file = NoFile
  /\ mode = "none"
  /\ IdleExt

GetPageFilename ==
  /\ pc = "name"
  /\ filename' = getPageFilename(pageNum)
  /\ pc' = "named"
  /\ UNCHANGED <<groupVars, pageVars, files, pageNum, fileVars, extVars>>

NextFilename == GetPageFilename

SpecFilename == InitFilename /\ [][NextFilename]_vars

(***************************************************************************)
(* renderTranscriptFromFile: parseSessionFile, then renderTranscript.      *)
(***************************************************************************)
UserLine == JsonObject("user", Undefined, Some(StringContent(TextHi)), NoLoglinesKey)
AssistantLine ==
  JsonObject("assistant", Some(Message(ArrayContent(<<TextBlock(TextHi)>>))), Undefined,
             NoLoglinesKey)
SummaryLine == JsonObject("summary", Undefined, Undefined, NoLoglinesKey)
\* an object without a type, such as {} or {"foo": 1}
UntypedObject == JsonObject("", Undefined, Undefined, NoLoglinesKey)
\* a valid entry whose content is not a string or an array of blocks
BadContentLine ==
  JsonObject("user", Undefined, Some([kind |-> "number", text |-> <<>>, blocks |-> <<>>]),
             NoLoglinesKey)

StampItems(items) == [k \in 1..Len(items) |-> [items[k] EXCEPT !.timestamp = k]]

\* {"loglines": [...]} documents
Document(items) == JsonObject("", Undefined, Undefined, LoglinesArray(StampItems(items)))
ValidDocument == Document(<<UserLine, SummaryLine, AssistantLine>>)
OneBadEntryDocument == Document(<<UserLine, UntypedObject, AssistantLine>>)
LoglinesNotArrayDocument == JsonObject("", Undefined, Undefined, LoglinesNotArray)
\* an entry that also carries a loglines key
EntryWithLoglinesKey ==
  JsonObject("user", Undefined, Some(StringContent(TextHi)), LoglinesArray(<<>>))

LineTexts ==
  { Text("blank"), Text("invalid"), Text("primitive"), Text("array"),
    UserLine, AssistantLine, SummaryLine, UntypedObject, BadContentLine,
    ValidDocument, OneBadEntryDocument, LoglinesNotArrayDocument, EntryWithLoglinesKey }

\* what a text of several lines can be as a whole when its first non-blank
\* line is not JSON by itself
WholeTexts ==
  { Text("invalid"), Text("primitive"), Text("array"), UntypedObject,
    ValidDocument, OneBadEntryDocument, LoglinesNotArrayDocument }

\* JSON.parse(content) for the text made of the given lines: a text with no
\* non-blank line is not JSON; JSON.parse skips surrounding whitespace, so
\* one non-blank line is parsed as that line; a value spread over several
\* lines opens on a first line and closes on a last line that are not JSON
\* by themselves, and a complete JSON value next to more text is a syntax
\* error
WholeOf(lines) ==
  LET nonBlank == SelectSeq(lines, LAMBDA l : l.json # "blank") IN
  IF nonBlank = <<>> THEN {Text("blank")}
  ELSE IF Len(nonBlank) = 1 THEN {nonBlank[1]}
  ELSE IF nonBlank[1].json # "invalid" THEN {Text("invalid")}
  ELSE IF nonBlank[Len(nonBlank)].json # "invalid" THEN {Text("invalid")}
  ELSE WholeTexts

InitFile ==
  /\ pc = "load"
  /\ \/ file = NoFile
     \/ \E n \in 1..MaxLines : \E shapes \in [1..n -> LineTexts] :
          \E whole \in WholeOf(StampItems(shapes)) : \E ext \in BOOLEAN :
            file = [exists |-> TRUE, jsonlExt |-> ext, lines |-> StampItems(shapes),
                    whole |-> whole]
  /\ loglines = <<>>
  /\ Idle
  /\ IdleExt

\* await file.text() rejects
ReadFails ==
  /\ pc = "load"
  /\ ~file.exists
  /\ pc' = "failed"
  /\ UNCHANGED <<groupVars, pageVars, files, nameVars, fileVars, extVars>>

ParseAsJsonl ==
  /\ pc = "load"
  /\ file.exists
  /\ file.jsonlExt \/ isJsonl(file.lines)
  /\ loglines' = parseJsonl(file.lines)
  /\ mode' = "jsonl"
  /\ pc' = "loaded"
  /\ UNCHANGED <<idx, conversations, current, pageVars, files, nameVars, file, extVars>>

ParseAsJson ==
  /\ pc = "load"
  /\ file.exists
  /\ ~(file.jsonlExt \/ isJsonl(file.lines))
  /\ LET session == parseJson(file.whole)
     IN /\ loglines' = session.loglines
        /\ pc' = IF session.ok THEN "loaded" ELSE "failed"
  /\ mode' = "json"
  /\ UNCHANGED <<idx, conversations, current, pageVars, files, nameVars, file, extVars>>

RenderLoaded ==
  /\ pc = "loaded"
  /\ \E out \in {renderTranscript(loglines, githubRepo)} :
        /\ conversations' = out.conversations
        /\ pages' = out.pages
        /\ totalPages' = out.totalPages
        /\ files' = out.files
        /\ pc' = IF out.thrown THEN "failed" ELSE "rendered"
  /\ UNCHANGED <<loglines, idx, current, pidx, currentPage, nameVars, fileVars, extVars>>

NextFile == ReadFails \/ ParseAsJsonl \/ ParseAsJson \/ RenderLoaded

SpecFile == InitFile /\ [][NextFile]_vars

(***************************************************************************)
(* renderContentBlock applied to one block.  The blocks are those the      *)
(* schema admits, with every shape of the values it leaves unknown, and    *)
(* blocks of a type the schema does not know.                              *)
(***************************************************************************)
ToolNames ==
  { <<"W", "r", "i", "t", "e">>, WriteName, McpPrefix \o WriteName,
    <<"E", "d", "i", "t">>, <<"B", "a", "s", "h">>,
    <<"T", "o", "d", "o", "W", "r", "i", "t", "e">>, McpPrefix \o TodoWriteName,
    <<"R", "e", "a", "d">> }

TodoItems ==
  { JsonNull, JsonNumber, TodoItem(TextHi, "completed"), TodoItem(TextHi, ""),
    TodoItem(TextHi, "pending"), TodoItem(TextHi, "blocked") }

ResultItems ==
  { JsonNull, JsonNumber, ObjectItem("text", TextHi, FALSE),
    ObjectItem("image", <<>>, TRUE), ObjectItem("image", <<>>, FALSE),
    ObjectItem("", TextHi, FALSE), ObjectItem("audio", <<>>, FALSE) }

\* the pieces tool output is put together from
CommitLine == <<"[", "m", " ", "1", "a", "2", "b", "3", "c", "4", "]", " ", "F">>
LongHashLine ==
  <<"[", "f", "/", "x", " ", "1", "a", "2", "b", "3", "c", "4", "d", "]", " ", "G", "o">>
DottedRefLine == <<"[", "v", ".", "1", " ", "1", "a", "2", "b", "3", "c", "4", "]", " ", "H">>
ShortHashLine == <<"[", "m", " ", "1", "a", "2", "b", "3", "c", "]", " ", "F">>
Segments ==
  { CommitLine, LongHashLine, DottedRefLine, ShortHashLine,
    <<"o", "k">>, <<"\n">>, <<"\r">> }

ResultTexts == { Concat(segs) : segs \in SeqsUpTo(Segments, MaxSegments) }

Repo == <<"o", "/", "r">>

Blocks ==
       { TextBlock(TextHi), TextBlock(<<>>), ThinkingOf(TextHi), ImageOf,
         Block("custom"), [Block("custom") EXCEPT !.text = <<"a", "\"", "\n">>],
         [Block("redacted_thinking") EXCEPT !.text = TextHi] }
  \cup { ToolUseOf(name, ToolInput(todos)) :
           name \in ToolNames,
           todos \in {Undefined, Some(NotAnArray)}
                       \cup {Some(ArrayOf(items)) : items \in SeqsUpTo(TodoItems, MaxItems)} }
  \cup { ToolResultOf(ResultArray(items), err) :
           items \in SeqsUpTo(ResultItems, MaxItems), err \in BOOLEAN }
  \cup { ToolResultOf(ResultString(text), FALSE) : text \in ResultTexts }

InitBlock ==
  /\ pc = "block"
  /\ block \in Blocks
  /\ githubRepo \in {Undefined, Some(Repo)}
  /\ rendered = Html(<<>>)
  /\ loglines = <<>>
  /\ file = NoFile
  /\ Idle
  /\ IdleCli
  /\ IdleIndex

RenderContentBlock ==
  /\ pc = "block"
  /\ rendered' = renderContentBlock(block, githubRepo)
  /\ pc' = "block-rendered"
  /\ UNCHANGED <<groupVars, pageVars, files, nameVars, fileVars, block, githubRepo,
                 cliVars, indexVars>>

NextBlock == RenderContentBlock

SpecBlock == InitBlock /\ [][NextBlock]_vars

(***************************************************************************)
(* The command line: argument handling, renderTranscriptFromFile, writeTo. *)
(***************************************************************************)
HelpFlag == <<"--", "h", "e", "l", "p">>
ShortHelpFlag == <<"-", "h">>
RepoFlag == <<"--", "r", "e", "p", "o">>
OtherFlag == <<"--", "x">>
InputPath == <<"i", "n">>
OutPath == <<"o", "u", "t">>
DefaultOutputDir == <<".", "/", "o", "u", "t", "p", "u", "t">>

ArgLists ==
  { <<>>, <<HelpFlag>>, <<ShortHelpFlag>>, <<InputPath, ShortHelpFlag>>, << <<>> >>,
    <<InputPath>>, <<InputPath, OutPath>>, <<InputPath, RepoFlag, Repo>>,
    <<InputPath, OutPath, RepoFlag, Repo>>, <<InputPath, RepoFlag>>,
    <<InputPath, OtherFlag, OutPath>> }

startsWith(s, prefix) == Len(s) >= Len(prefix) /\ SubSeq(s, 1, Len(prefix)) = prefix

\* the loop over args[1..]: --repo takes the next argument when there is a
\* non-empty one, anything else not starting with -- is the output directory
RECURSIVE ParseOptions(_, _, _)
ParseOptions(as, i, acc) ==
  IF i > Len(as) THEN acc
  ELSE IF as[i] = RepoFlag /\ i + 1 <= Len(as) /\ as[i + 1] # <<>>
       THEN ParseOptions(as, i + 2, [acc EXCEPT !.githubRepo = Some(as[i + 1])])
  ELSE IF ~startsWith(as[i], <<"--">>)
       THEN ParseOptions(as, i + 1, [acc EXCEPT !.outputDir = as[i]])
  ELSE ParseOptions(as, i + 1, acc)

CliOptions(as) ==
  ParseOptions(as, 2, [outputDir |-> DefaultOutputDir, githubRepo |-> Undefined])

WantsUsage(as) ==
  Len(as) = 0 \/ \E k \in DOMAIN as : as[k] \in {HelpFlag, ShortHelpFlag}

\* error.message of what renderTranscriptFromFile rejected with
ErrorMessage ==
  IF ~file.exists THEN "ENOENT"
  ELSE IF mode = "json" /\ file.whole.json \in {"blank", "invalid"} THEN "SyntaxError"
  ELSE IF mode = "json" /\ ~parseJson(file.whole).ok THEN "ZodError"
  ELSE "TypeError"

CliFiles ==
  {NoFile} \cup
  { [exists |-> TRUE, jsonlExt |-> ext, lines |-> StampItems(<<l>>), whole |-> l] :
      l \in LineTexts, ext \in BOOLEAN }

InitCli ==
  /\ pc = "cli"
  /\ args \in ArgLists
  /\ file \in CliFiles
  /\ loglines = <<>>
  /\ Idle
  /\ IdleBlock /\ IdleIndex
  /\ exitCode = -1 /\ printed = <<>> /\ disk = {}

\* no arguments, --help or -h: the usage text and process.exit(0)
CliUsage ==
  /\ pc = "cli"
  /\ WantsUsage(args)
  /\ printed' = Append(printed, <<"usage">>)
  /\ exitCode' = 0
  /\ pc' = "exited"
  /\ UNCHANGED <<groupVars, pageVars, files, nameVars, fileVars, blockVars, args, disk,
                 indexVars>>

\* args[0] is falsy
CliNoInput ==
  /\ pc = "cli"
  /\ ~WantsUsage(args)
  /\ args[1] = <<>>
  /\ printed' = Append(printed, <<"Error: Input file is required">>)
  /\ exitCode' = 1
  /\ pc' = "exited"
  /\ UNCHANGED <<groupVars, pageVars, files, nameVars, fileVars, blockVars, args, disk,
                 indexVars>>

CliConvert ==
  /\ pc = "cli"
  /\ ~WantsUsage(args)
  /\ args[1] # <<>>
  /\ LET options == CliOptions(args)
     IN /\ githubRepo' = options.githubRepo
        /\ printed' = printed \o <<<<"Converting: ">> \o args[1],
                                   <<"Output dir: ">> \o options.outputDir>>
                              \o (IF Truthy(options.githubRepo)
                                  THEN <<<<"GitHub repo: ">> \o options.githubRepo[1]>>
                                  ELSE <<>>)
  /\ pc' = "load"
  /\ UNCHANGED <<groupVars, pageVars, files, nameVars, fileVars, block, rendered, args,
                 exitCode, disk, indexVars>>

\* output.writeTo(outputDir), then the process ends by itself
CliWrite ==
  /\ pc = "rendered"
  /\ disk' = disk \cup {<<CliOptions(args).outputDir, name>> : name \in DOMAIN files}
  /\ printed' = printed \o <<<<"Generated">>, <<"Written to ">> \o CliOptions(args).outputDir>>
  /\ exitCode' = 0
  /\ pc' = "exited"
  /\ UNCHANGED <<groupVars, pageVars, files, nameVars, fileVars, blockVars, args, indexVars>>

\* catch (error): the message and process.exit(1)
CliFail ==
  /\ pc = "failed"
  /\ printed' = Append(printed, <<"Error:", ErrorMessage>>)
  /\ exitCode' = 1
  /\ pc' = "exited"
  /\ UNCHANGED <<groupVars, pageVars, files, nameVars, fileVars, blockVars, args, disk,
                 indexVars>>

NextCli ==
  \/ CliUsage \/ CliNoInput \/ CliConvert
  \/ ReadFails \/ ParseAsJsonl \/ ParseAsJson \/ RenderLoaded
  \/ CliWrite \/ CliFail

SpecCli == InitCli /\ [][NextCli]_vars

(***************************************************************************)
(* renderTranscript on sessions whose messages have every shape of content *)
(* renderMessage tells apart.                                              *)
(***************************************************************************)
PageContents ==
  { StringContent(TextHi),
    ArrayContent(<<>>),
    ArrayContent(<<ToolResultBlock>>),
    ArrayContent(<<ToolResultBlock, TextBlock(TextHi)>>) }

PageShapes ==
     { Logline("user", 0, Some(Message(c)), Undefined, FALSE) : c \in PageContents }
  \cup { Logline("assistant", 0, Some(Message(c)), Undefined, FALSE) :
           c \in { StringContent(TextHi), ArrayContent(<<>>),
                   ArrayContent(<<TextBlock(TextHi)>>),
                   ArrayContent(<<TextBlock(<<>>), ToolUseBlock>>) } }

InitPages ==
  /\ pc = "render"
  /\ \E shapes \in SeqsUpTo(PageShapes, MaxPageLoglines) : loglines = Stamp(shapes)
  /\ file = NoFile
  /\ Idle
  /\ IdleExt

NextPages == NextRender

SpecPages == InitPages /\ [][NextPages]_vars

(***************************************************************************)
(* The figures of the index: analyzeConversation on the whole session and  *)
(* formatConversationToolStats and findConversationCommits on each         *)
(* conversation.                                                           *)
(***************************************************************************)
AnalyzeToolNames ==
  { <<"W", "r", "i", "t", "e">>, WriteName, McpPrefix \o WriteName, <<"B", "a", "s", "h">> }

TwoCommits == CommitLine \o <<"\n">> \o LongHashLine

AnalyzeTexts == { CommitLine, TwoCommits, ShortHashLine, <<"o", "k">> }

AnalyzeShapes ==
     { Logline("user", 0, Some(Message(StringContent(TextHi))), Undefined, FALSE),
       Logline("assistant", 0,
               Some(Message(ArrayContent(
                 << ToolUseOf(<<"W", "r", "i", "t", "e">>, ToolInput(Undefined)),
                    ToolUseOf(WriteName, ToolInput(Undefined)) >>))),
               Undefined, FALSE) }
  \cup { Logline("assistant", 0,
                 Some(Message(ArrayContent(<<ToolUseOf(name, ToolInput(Undefined))>>))),
                 Undefined, FALSE) : name \in AnalyzeToolNames }
  \cup { Logline("user", 0,
                 Some(Message(ArrayContent(<<ToolResultOf(ResultString(t), FALSE)>>))),
                 Undefined, FALSE) : t \in AnalyzeTexts }

InitAnalyze ==
  /\ pc = "analyze"
  /\ \E shapes \in SeqsUpTo(AnalyzeShapes, MaxAnalyzeLoglines) : loglines = Stamp(shapes)
  /\ file = NoFile
  /\ Idle
  /\ IdleExt

\* const analysis = analyzeConversation(loglines)
AnalyzeSession ==
  /\ pc = "analyze"
  /\ analysis' = analyzeConversation(loglines)
  /\ conversations' = groupLoglinesToConversations(loglines)
  /\ pc' = "analyzed"
  /\ UNCHANGED <<loglines, idx, current, pageVars, files, nameVars, fileVars, blockVars,
                 cliVars, stats>>

\* conversations.map(...): the tool statistics and the commits of each
ConversationStats ==
  /\ pc = "analyzed"
  /\ stats' = [i \in 1..Len(conversations) |->
                 [toolStats |-> formatConversationToolStats(conversations[i].messages),
                  commits |-> findConversationCommits(conversations[i].messages)]]
  /\ pc' = "indexed"
  /\ UNCHANGED <<groupVars, pageVars, files, nameVars, fileVars, blockVars, cliVars,
                 analysis>>

NextAnalyze == AnalyzeSession \/ ConversationStats

SpecAnalyze == InitAnalyze /\ [][NextAnalyze]_vars

(***************************************************************************)
(* renderTranscript on sessions whose entries carry tool uses in the       *)
(* nested message field, in the flat content field, and in entries that    *)
(* are no turns.                                                           *)
(***************************************************************************)
OneToolUse == ArrayContent(<<ToolUseBlock>>)

SummaryShapes ==
  { Logline("user", 0, Some(Message(StringContent(TextHi))), Undefined, FALSE),
    Logline("user", 0, Undefined, Some(StringContent(TextHi)), FALSE),
    Logline("assistant", 0, Some(Message(OneToolUse)), Undefined, FALSE),
    Logline("assistant", 0, Undefined, Some(OneToolUse), FALSE),
    Logline("assistant", 0, Some(Message(ArrayContent(<<ToolUseBlock, ToolUseBlock>>))),
            Undefined, FALSE),
    Logline("summary", 0, Some(Message(OneToolUse)), Undefined, FALSE) }

InitSummary ==
  /\ pc = "render"
  /\ \E shapes \in SeqsUpTo(SummaryShapes, MaxSummaryLoglines) : loglines = Stamp(shapes)
  /\ file = NoFile
  /\ Idle
  /\ IdleExt

NextSummary == NextRender

SpecSummary == InitSummary /\ [][NextSummary]_vars

(***************************************************************************)
(* renderTranscript with options.githubRepo on sessions whose tool results *)
(* hold commit output, in user entries and in assistant entries.           *)
(***************************************************************************)
CommitResult == ArrayContent(<<ToolResultOf(ResultString(CommitLine), FALSE)>>)

LinkShapes ==
  { Logline("user", 0, Some(Message(StringContent(TextHi))), Undefined, FALSE),
    Logline("user", 0, Some(Message(CommitResult)), Undefined, FALSE),
    Logline("user", 0, Some(Message(ArrayContent(
              <<ToolResultOf(ResultString(<<"o", "k">>), FALSE)>>))), Undefined, FALSE),
    Logline("assistant", 0, Some(Message(CommitResult)), Undefined, FALSE),
    Logline("assistant", 0, Some(Message(ArrayContent(<<TextBlock(TextHi)>>))),
            Undefined, FALSE) }

InitLinks ==
  /\ pc = "render"
  /\ \E shapes \in SeqsUpTo(LinkShapes, MaxLinkLoglines) : loglines = Stamp(shapes)
  /\ file = NoFile
  /\ Idle
  /\ block = Block("text") /\ rendered = Html(<<>>)
  /\ githubRepo \in {Undefined, Some(Repo)}
  /\ IdleCli /\ IdleIndex

NextLinks == NextRender

SpecLinks == InitLinks /\ [][NextLinks]_vars

(***************************************************************************)
(* One tool-result string given to the renderer and to the two places of   *)
(* the index that look for commits in it.                                  *)
(***************************************************************************)
ResultEntry(resultBlock) ==
  Logline("user", 1, Some(Message(ArrayContent(<<resultBlock>>))), Undefined, FALSE)

InitPattern ==
  /\ pc = "pattern"
  /\ \E text \in ResultTexts : block = ToolResultOf(ResultString(text), FALSE)
  /\ githubRepo = Some(Repo)
  /\ rendered = Html(<<>>)
  /\ loglines = <<>>
  /\ file = NoFile
  /\ Idle
  /\ IdleCli /\ IdleIndex

\* ToolResult on the block
RenderResult ==
  /\ pc = "pattern"
  /\ rendered' = renderContentBlock(block, githubRepo)
  /\ pc' = "pattern-rendered"
  /\ UNCHANGED <<groupVars, pageVars, files, nameVars, fileVars, block, githubRepo,
                 cliVars, indexVars>>

\* analyzeConversation and findConversationCommits on an entry holding it
AnalyzeResult ==
  /\ pc = "pattern-rendered"
  /\ loglines' = <<ResultEntry(block)>>
  /\ analysis' = analyzeConversation(loglines')
  /\ stats' = <<[toolStats |-> <<>>,
                 commits |-> findConversationCommits(
                               <<ConversationMessage("user",
                                   JSONstringify(Message(ArrayContent(<<block>>))), 1)>>)]>>
  /\ pc' = "pattern-analyzed"
  /\ UNCHANGED <<idx, conversations, current, pageVars, files, nameVars, fileVars,
                 blockVars, cliVars>>

NextPattern == RenderResult \/ AnalyzeResult

SpecPattern == InitPattern /\ [][NextPattern]_vars

(***************************************************************************)
(* The grouper on one user entry: the preview of the conversation it       *)
(* opens.                                                                  *)
(***************************************************************************)
Repeat(ch, n) == [k \in 1..n |-> ch]

PreviewTexts ==
  { TextHi, <<>>, <<" ", " ">>, <<" ", "h", "\n", "\n", "i", "\t">>,
    Repeat("a", PreviewLimit), Repeat("a", PreviewLimit + 1),
    Repeat("a", PreviewLimit) \o <<" ">>,
    <<" ">> \o Repeat("a", PreviewLimit - 1) \o <<" ", " ", "b", "c">> }

PreviewContents ==
       { StringContent(t) : t \in PreviewTexts }
  \cup { ArrayContent(<<TextBlock(t)>>) : t \in PreviewTexts }
  \cup { ArrayContent(<<ImageOf, TextBlock(t)>>) : t \in PreviewTexts }
  \cup { ArrayContent(<<TextBlock(t), TextBlock(TextHi)>>) : t \in PreviewTexts }
  \cup { ArrayContent(<<>>), ArrayContent(<<ImageOf>>),
         ArrayContent(<<ToolResultBlock, ImageOf>>) }

InitPreview ==
  /\ pc = "group"
  /\ \E c \in PreviewContents :
       \/ loglines = Stamp(<<Logline("user", 0, Some(Message(c)), Undefined, FALSE)>>)
       \/ loglines = Stamp(<<Logline("user", 0, Undefined, Some(c), FALSE)>>)
  /\ file = NoFile
  /\ Idle
  /\ IdleExt

NextPreview == UserEntry \/ GroupReturn

SpecPreview == InitPreview /\ [][NextPreview]_vars

(***************************************************************************)
(* analyzeConversation on thinking blocks and tool inputs around the       *)
(* long-text limit.                                                        *)
(***************************************************************************)
AtLimit == Repeat("a", LongTextLimit)
OverLimit == Repeat("b", LongTextLimit + 1)

InputFields == {Undefined, Some(TextHi), Some(AtLimit), Some(OverLimit)}

LongInputs ==
  { [ToolInput(Undefined) EXCEPT !.content = c, !.newString = n, !.replacement = r] :
      c \in InputFields, n \in InputFields, r \in InputFields }

LongBlocks ==
       { ToolUseOf(WriteName, input) : input \in LongInputs }
  \cup { ThinkingOf(t) : t \in {TextHi, AtLimit, OverLimit} }

AssistantOf(blocks) == Logline("assistant", 0, Some(Message(ArrayContent(blocks))), Undefined, FALSE)

InitLong ==
  /\ pc = "analyze"
  /\ \E b \in LongBlocks :
       \E rest \in {<<>>, <<AssistantOf(<<ThinkingOf(OverLimit)>>)>>,
                    <<AssistantOf(<<ToolUseOf(WriteName, ToolInput(Undefined))>>)>>} :
         loglines = Stamp(<<Logline("user", 0, Some(Message(StringContent(TextHi))), Undefined, FALSE),
                            AssistantOf(<<b>>)>> \o rest)
  /\ file = NoFile
  /\ Idle
  /\ IdleExt

NextLong == NextAnalyze

SpecLong == InitLong /\ [][NextLong]_vars

(***************************************************************************)
(* The pagination controls on their own: Pagination for page pageNum of    *)
(* totalPages, IndexPagination (pageNum 0) for the index.                  *)
(***************************************************************************)
InitNav ==
  /\ pc = "nav"
  /\ loglines = <<>>
  /\ idx = 0 /\ conversations = <<>> /\ current = 0
  /\ pidx = 0 /\ pages = <<>> /\ currentPage = <<>>
  /\ totalPages \in 0..MaxNavPages
  /\ pageNum \in 0..totalPages
  /\ files = NoFiles
  /\ filename = <<>>
  /\ file = NoFile
  /\ mode = "none"
  /\ IdleExt

RenderPagination ==
  /\ pc = "nav"
  /\ pageNum >= 1
  /\ rendered' = Html(renderToHtml(Pagination(pageNum, totalPages)))
  /\ pc' = "nav-page"
  /\ UNCHANGED <<groupVars, pageVars, files, nameVars, fileVars, block, githubRepo,
                 cliVars, indexVars>>

RenderIndexPagination ==
  /\ pc = "nav"
  /\ pageNum = 0
  /\ rendered' = Html(renderToHtml(IndexPagination(totalPages)))
  /\ pc' = "nav-index"
  /\ UNCHANGED <<groupVars, pageVars, files, nameVars, fileVars, block, githubRepo,
                 cliVars, indexVars>>

NextNav == RenderPagination \/ RenderIndexPagination

SpecNav == InitNav /\ [][NextNav]_vars

(***************************************************************************)
(* Vocabulary of the properties, stated on the input entries.              *)
(***************************************************************************)
HasMessage(e) == e.message # Undefined \/ e.content # Undefined

ContentOf(e) == IF e.message # Undefined THEN e.message[1].content ELSE e.content[1]

PureToolResults(c) ==
  /\ c.kind = "array"
  /\ c.blocks # <<>>
  /\ {c.blocks[k].type : k \in DOMAIN c.blocks} = {"tool_result"}

ToolResultEntry(e) == e.type = "user" /\ HasMessage(e) /\ PureToolResults(ContentOf(e))

GenuinePrompt(e) == e.type = "user" /\ HasMessage(e) /\ ~PureToolResults(ContentOf(e))

AssistantTurn(e) == e.type = "assistant" /\ HasMessage(e)

\* the message the grouper stores for entry e
Stored(e) ==
  [type |-> e.type,
   messageJson |-> <<"{", "content", ":", ContentOf(e), "}">>,
   timestamp |-> e.timestamp]

\* conversation list cs with message m added at the end of its last conversation
WithAppended(cs, m) ==
  [k \in 1..Len(cs) |->
     IF k = Len(cs) THEN [cs[k] EXCEPT !.messages = Append(@, m)] ELSE cs[k]]

Timestamps(cs) ==
  UNION {{cs[k].messages[j].timestamp : j \in DOMAIN cs[k].messages} : k \in DOMAIN cs}

(***************************************************************************)
(* C1: a user entry whose content is a non-empty array of tool-result      *)
(* blocks only never opens a conversation: the step that processes it      *)
(* keeps the number of conversations, appends the entry to the last        *)
(* conversation if there is one, and otherwise drops it.                   *)
(***************************************************************************)
C1_Step ==
  (InLoop /\ idx' = idx + 1 /\ ToolResultEntry(Entry)) =>
     /\ Len(conversations') = Len(conversations)
     /\ IF conversations # <<>>
        THEN conversations' = WithAppended(conversations, Stored(Entry))
        ELSE conversations' = <<>>

C1_ToolResultNeverOpens == [][C1_Step]_vars

C1_Witness ==
  /\ pc = "grouped"
  /\ Len(loglines) >= 3
  /\ ToolResultEntry(loglines[1])
  /\ ToolResultEntry(loglines[3])
  /\ Len(conversations) = 1
  /\ \E j \in DOMAIN conversations[1].messages :
        conversations[1].messages[j].timestamp = 3
  /\ 1 \notin Timestamps(conversations)

(***************************************************************************)
(* C2: every conversation has a non-empty message list that starts with a  *)
(* user message which is not purely tool results (the entry that opened    *)
(* it); every later message is an assistant message or a purely            *)
(* tool-result user message, taken from the entries after the opening one  *)
(* and before the entry that opens the next conversation.                  *)
(***************************************************************************)
C2_ConversationShape ==
  \A k \in DOMAIN conversations :
    LET c == conversations[k]
        ms == c.messages
    IN /\ ms # <<>>
       /\ ms[1].type = "user"
       /\ ~PureToolResults(JSONparse(ms[1].messageJson).content)
       /\ ms[1].timestamp \in 1..idx
       /\ GenuinePrompt(loglines[ms[1].timestamp])
       /\ ms[1] = Stored(loglines[ms[1].timestamp])
       /\ \A j \in 2..Len(ms) :
            /\ \/ ms[j].type = "assistant"
               \/ /\ ms[j].type = "user"
                  /\ PureToolResults(JSONparse(ms[j].messageJson).content)
            /\ ms[j].timestamp \in (ms[1].timestamp + 1)..idx
            /\ ms[j] = Stored(loglines[ms[j].timestamp])
            /\ k < Len(conversations) =>
                 ms[j].timestamp < conversations[k + 1].messages[1].timestamp
            /\ \A q \in (ms[1].timestamp + 1)..ms[j].timestamp :
                 ~GenuinePrompt(loglines[q])

C2_Witness ==
  /\ pc = "grouped"
  /\ Len(conversations) = 2
  /\ Len(conversations[1].messages) = 3
  /\ conversations[1].messages[2].type = "assistant"
  /\ conversations[1].messages[3].type = "user"

(***************************************************************************)
(* C3: an assistant entry with a resolvable message is appended to the     *)
(* open (last) conversation if there is one; if no genuine user prompt     *)
(* precedes it in the entry list it is dropped and appears in no           *)
(* conversation, then or later.                                            *)
(***************************************************************************)
C3_Step ==
  (InLoop /\ idx' = idx + 1 /\ AssistantTurn(Entry)) =>
     IF \E q \in 1..idx : GenuinePrompt(loglines[q])
     THEN /\ conversations # <<>>
          /\ conversations' = WithAppended(conversations, Stored(Entry))
     ELSE /\ conversations = <<>>
          /\ conversations' = <<>>

C3_OrphanAbsent ==
  \A q \in 1..idx :
    (AssistantTurn(loglines[q]) /\ \A r \in 1..(q - 1) : ~GenuinePrompt(loglines[r]))
      => q \notin Timestamps(conversations)

C3_AssistantAppendedOrDropped == [][C3_Step]_vars /\ []C3_OrphanAbsent

C3_Witness ==
  /\ pc = "grouped"
  /\ Len(loglines) >= 3
  /\ AssistantTurn(loglines[1])
  /\ GenuinePrompt(loglines[2])
  /\ AssistantTurn(loglines[3])
  /\ 1 \notin Timestamps(conversations)
  /\ 3 \in Timestamps(conversations)

(***************************************************************************)
(* Vocabulary of the pagination and file-name properties.                  *)
(***************************************************************************)
Sizes(ps) == [k \in DOMAIN ps |-> Len(ps[k])]

Paginated == pc \in {"index", "pages", "rendered"}

\* ceil(n / 5) as the least number of fives that cover n
IsCeilOfFifth(k, n) == k >= 0 /\ 5 * k >= n /\ 5 * (k - 1) < n

DigitChars == {"0", "1", "2", "3", "4", "5", "6", "7", "8", "9"}

DigitValue(ch) == CHOOSE d \in 0..9 : DigitChar(d) = ch

RECURSIVE DecimalValue(_)
DecimalValue(ds) ==
  IF ds = <<>> THEN 0
  ELSE 10 * DecimalValue(SubSeq(ds, 1, Len(ds) - 1)) + DigitValue(ds[Len(ds)])

\* the digits between "page-" and ".html"
PageDigits(name) == SubSeq(name, 6, Len(name) - 5)

WellFormedPageName(name) ==
  /\ Len(name) > 10
  /\ SubSeq(name, 1, 5) = <<"p", "a", "g", "e", "-">>
  /\ SubSeq(name, Len(name) - 4, Len(name)) = <<".", "h", "t", "m", "l">>
  /\ \A k \in DOMAIN PageDigits(name) : PageDigits(name)[k] \in DigitChars

\* page-NNN.html for a page number below 1000
ThreeDigitName(p) ==
  <<"p", "a", "g", "e", "-",
    DigitChar((p \div 100) % 10), DigitChar((p \div 10) % 10), DigitChar(p % 10),
    ".", "h", "t", "m", "l">>

(***************************************************************************)
(* C4: paginateConversations with page size 5 returns consecutive chunks   *)
(* in input order: every page but the last holds exactly 5 conversations,  *)
(* the last holds 1 to 5, the pages concatenated are the input list, and   *)
(* an empty input gives an empty page list.                                *)
(***************************************************************************)
C4_ConsecutiveChunks ==
  Paginated =>
    /\ Concat(pages) = conversations
    /\ \A k \in 1..(Len(pages) - 1) : Len(pages[k]) = 5
    /\ pages # <<>> => Len(pages[Len(pages)]) \in 1..5
    /\ conversations = <<>> => pages = <<>>

C4_Witness ==
  /\ pc = "rendered"
  /\ Len(conversations) = 7
  /\ Sizes(pages) = <<5, 2>>
  /\ pages[2][2] = conversations[7]

(***************************************************************************)
(* C5: the number of pages produced (the totalPages that renderTranscript  *)
(* hands on) equals calculateTotalPages(n), which is ceil(n/5) for n > 0   *)
(* and 0 for n = 0; 12 conversations give pages of sizes 5, 5, 2.          *)
(***************************************************************************)
C5_TotalPages ==
  Paginated =>
    LET n == Len(conversations) IN
    /\ totalPages = Len(pages)
    /\ Len(pages) = calculateTotalPages(n, PROMPTS_PER_PAGE)
    /\ IsCeilOfFifth(calculateTotalPages(n, PROMPTS_PER_PAGE), n)
    /\ n = 0 => totalPages = 0
    /\ n = 12 => Sizes(pages) = <<5, 5, 2>>

C5_Witness ==
  /\ pc = "rendered"
  /\ Len(conversations) = 12
  /\ totalPages = 3
  /\ Sizes(pages) = <<5, 5, 2>>

(***************************************************************************)
(* C9: the keys of the file map returned by renderTranscript are           *)
(* index.html and one page file for each page number 1..ceil(n/5), nothing *)
(* missing and nothing else; index.html is there for n = 0 too, and a      *)
(* 2-page session has exactly page-001.html and page-002.html.             *)
(***************************************************************************)
C9_FileMapKeys ==
  pc = "rendered" =>
    LET n == Len(conversations)
        k == CHOOSE c \in 0..n : IsCeilOfFifth(c, n)
    IN /\ DOMAIN files =
            {<<"i", "n", "d", "e", "x", ".", "h", "t", "m", "l">>}
              \cup {ThreeDigitName(p) : p \in 1..k}
       /\ Cardinality(DOMAIN files) = k + 1
       /\ \A p \in 1..k :
            /\ files[ThreeDigitName(p)].kind = "page"
            /\ files[ThreeDigitName(p)].pageNum = p
       /\ totalPages = 2 =>
            DOMAIN files =
              { <<"i", "n", "d", "e", "x", ".", "h", "t", "m", "l">>,
                <<"p", "a", "g", "e", "-", "0", "0", "1", ".", "h", "t", "m", "l">>,
                <<"p", "a", "g", "e", "-", "0", "0", "2", ".", "h", "t", "m", "l">> }

C9_Witness ==
  /\ pc = "rendered"
  /\ Len(conversations) = 6
  /\ Cardinality(DOMAIN files) = 3
  /\ <<"p", "a", "g", "e", "-", "0", "0", "2", ".", "h", "t", "m", "l">> \in DOMAIN files

\* the map of a session without conversations
C9_WitnessEmpty ==
  /\ pc = "rendered"
  /\ conversations = <<>>
  /\ Len(loglines) > 0
  /\ DOMAIN files = {<<"i", "n", "d", "e", "x", ".", "h", "t", "m", "l">>}

AfterLoad == pc \in {"loaded", "rendered", "failed"} /\ file.exists

\* line k is non-blank, parses as JSON, passes the entry schema and is a
\* user or assistant entry
ValidTurnLine(k) ==
  /\ file.lines[k].json \notin {"blank", "invalid"}
  /\ LoglineSchema(file.lines[k]) # Undefined
  /\ file.lines[k].type \in {"user", "assistant"}

ParsesWithoutLoglinesKey(text) ==
  text.json \in {"primitive", "array", "object"} /\ ~text.loglinesKey.has

FirstNonBlank == CHOOSE k \in DOMAIN file.lines :
                   /\ file.lines[k].json # "blank"
                   /\ \A j \in 1..(k - 1) : file.lines[j].json = "blank"

HasNonBlank == \E k \in DOMAIN file.lines : file.lines[k].json # "blank"

\* the whole text is not JSON, or is JSON that fails the session schema
InvalidDocument ==
  \/ file.whole.json \in {"blank", "invalid"}
  \/ file.whole.json # "object"
  \/ ~file.whole.loglinesKey.has
  \/ ~file.whole.loglinesKey.isArray
  \/ \E k \in DOMAIN file.whole.loglinesKey.items :
        LoglineSchema(file.whole.loglinesKey.items[k]) = Undefined

FirstLineIsContainerWithoutLoglinesKey ==
  file.lines[1].json \in {"array", "object"} /\ ~file.lines[1].loglinesKey.has

(***************************************************************************)
(* C6: line-delimited input with any mix of valid and invalid lines loads  *)
(* without failing, and the session's entries are exactly the lines that   *)
(* are non-blank, parse as JSON, pass the entry schema and have type user  *)
(* or assistant, in their original order.                                  *)
(***************************************************************************)
C6_JsonlKeepsValidTurns ==
  (AfterLoad /\ mode = "jsonl") =>
    /\ pc # "failed"
    /\ {loglines[j].timestamp : j \in DOMAIN loglines} =
         {k \in DOMAIN file.lines : ValidTurnLine(k)}
    /\ \A i, j \in DOMAIN loglines : i < j => loglines[i].timestamp < loglines[j].timestamp
    /\ \A j \in DOMAIN loglines :
         /\ loglines[j].type = file.lines[loglines[j].timestamp].type
         /\ loglines[j].message = file.lines[loglines[j].timestamp].message
         /\ loglines[j].content = file.lines[loglines[j].timestamp].content

C6_Witness ==
  /\ pc = "loaded"
  /\ mode = "jsonl"
  /\ Len(file.lines) = 3
  /\ file.lines[1].json = "invalid"
  /\ file.lines[2].type = "summary"
  /\ ValidTurnLine(3)
  /\ Len(loglines) = 1
  /\ loglines[1].timestamp = 3

(***************************************************************************)
(* C7 as stated: a file is treated as line-delimited exactly when its path *)
(* ends in .jsonl or its first non-blank line parses as JSON lacking a     *)
(* top-level "loglines" key; otherwise as a single JSON document.          *)
(***************************************************************************)
C7_FirstNonBlankLineDecides ==
  AfterLoad =>
    /\ mode \in {"jsonl", "json"}
    /\ mode = "jsonl" <=>
         \/ file.jsonlExt
         \/ HasNonBlank /\ ParsesWithoutLoglinesKey(file.lines[FirstNonBlank])

(***************************************************************************)
(* C7 amended: a file is treated as line-delimited exactly when its path   *)
(* ends in .jsonl or its first line (the text before the first line break, *)
(* trimmed) is non-blank and parses as a JSON object or array lacking a    *)
(* top-level "loglines" key; otherwise -- also when the first line is      *)
(* blank, or is a JSON number, string, boolean or null -- as a single JSON *)
(* document.                                                               *)
(***************************************************************************)
C7_FirstLineDecides ==
  AfterLoad =>
    /\ mode \in {"jsonl", "json"}
    /\ mode = "jsonl" <=> (file.jsonlExt \/ FirstLineIsContainerWithoutLoglinesKey)

C7_Witness ==
  /\ pc = "failed"
  /\ ~file.jsonlExt
  /\ Len(file.lines) = 2
  /\ file.lines[1].json = "blank"
  /\ ValidTurnLine(2)
  /\ mode = "json"

(***************************************************************************)
(* C8 as stated: for a file not named .jsonl whose text is malformed JSON  *)
(* or fails schema validation, parseSessionFile fails and                  *)
(* renderTranscriptFromFile returns no output: no entry is salvaged and no *)
(* file map is produced.                                                   *)
(***************************************************************************)
C8_InvalidDocumentFails ==
  (AfterLoad /\ ~file.jsonlExt /\ InvalidDocument) =>
    /\ pc = "failed"
    /\ loglines = <<>>
    /\ files = NoFiles

(***************************************************************************)
(* C8 amended: for a file that parseSessionFile reads as a single JSON     *)
(* document -- not named .jsonl and whose first line is not a JSON object  *)
(* or array lacking a "loglines" key -- a text that is malformed JSON or   *)
(* fails schema validation makes parseSessionFile fail and                 *)
(* renderTranscriptFromFile return no output: no entry is salvaged and no  *)
(* file map is produced.                                                   *)
(***************************************************************************)
C8_InvalidSingleDocumentFails ==
  (AfterLoad /\ ~file.jsonlExt /\ ~FirstLineIsContainerWithoutLoglinesKey
     /\ InvalidDocument) =>
    /\ pc = "failed"
    /\ loglines = <<>>
    /\ files = NoFiles

C8_Witness ==
  /\ pc = "failed"
  /\ ~file.jsonlExt
  /\ Len(file.lines) = 1
  /\ file.whole.loglinesKey.isArray
  /\ Len(file.whole.loglinesKey.items) = 3
  /\ LoglineSchema(file.whole.loglinesKey.items[1]) # Undefined
  /\ LoglineSchema(file.whole.loglinesKey.items[2]) = Undefined
  /\ files = NoFiles

(***************************************************************************)
(* Vocabulary of the claims about renderContentBlock.                      *)
(***************************************************************************)
BlockRendered == pc = "block-rendered"

\* ContentBlockSchema admits the block: one of the five tags (the values
\* the schema leaves unknown are unconstrained)
ContentBlockSchema(b) == b.type \in BlockTypes

(***************************************************************************)
(* C11: renderContentBlock never raises for a block that passes            *)
(* ContentBlockSchema -- a todowrite tool-use whose todos array holds null *)
(* or non-object items and a tool-result whose content array holds null or *)
(* untyped items included -- but returns an HTML string.  The code raises  *)
(* a TypeError on a null item of either array: t.content and item.type are *)
(* read without a guard.                                                   *)
(***************************************************************************)
C11_NeverRaises ==
  (BlockRendered /\ ContentBlockSchema(block)) => ~rendered.thrown

\* the texts of the text nodes of an HTML string, at any depth
RECURSIVE TextsIn(_)
TextsIn(html) ==
  UNION { IF html[k].cls = "#text" THEN {html[k].text} ELSE TextsIn(html[k].kids)
          : k \in 1..Len(html) }

\* the block as JSON.stringify(block, null, 2) prints it: one member per
\* line, indented by two spaces, between the braces
IndentedJson(b) ==
  <<"{", "\n", " ", " ">> \o Quote(<<"type">>) \o <<":", " ">> \o Quote(<<b.type>>)
  \o (IF b.text # <<>>
      THEN <<",", "\n", " ", " ">> \o Quote(<<"text">>) \o <<":", " ">> \o Quote(b.text)
      ELSE <<>>)
  \o <<"\n", "}">>

(***************************************************************************)
(* C12: for every content block whose type is not one of the five known    *)
(* tags, renderContentBlock does not throw and returns HTML that contains  *)
(* the pretty-printed raw JSON of the block.                               *)
(***************************************************************************)
C12_UnknownBlockShownAsJson ==
  (BlockRendered /\ block.type \notin BlockTypes) =>
    /\ ~rendered.thrown
    /\ IndentedJson(block) \in TextsIn(rendered.html)

C12_Witness ==
  /\ BlockRendered
  /\ block.type = "custom"
  /\ block.text # <<>>
  /\ ~rendered.thrown
  /\ rendered.html[1].cls = "unknown-block"

(***************************************************************************)
(* Vocabulary of C13.                                                      *)
(***************************************************************************)
\* the messages of all conversations, in conversation order
AllMessages(cs) == Concat([k \in 1..Len(cs) |-> cs[k].messages])

\* entry p of the log is kept by the grouper: a user or assistant entry
\* with a message that is a genuine prompt or follows one
Kept(p) ==
  /\ loglines[p].type \in {"user", "assistant"}
  /\ HasMessage(loglines[p])
  /\ \/ GenuinePrompt(loglines[p])
     \/ \E q \in 1..(p - 1) : GenuinePrompt(loglines[q])

SameEntry(p, q) == [loglines[p] EXCEPT !.timestamp = 0] = [loglines[q] EXCEPT !.timestamp = 0]

(***************************************************************************)
(* C13: the grouper preserves input order and neither reorders nor         *)
(* deduplicates: the concatenation of the conversations' message lists is  *)
(* a subsequence of the input entries in input order -- each message is    *)
(* the stored form of one entry, at strictly increasing positions -- and   *)
(* every kept entry is there once per occurrence, so an entry that occurs  *)
(* twice in the input occurs twice in the output.                          *)
(***************************************************************************)
C13_OrderPreserved ==
  LET out == AllMessages(conversations) IN
  /\ \A j \in 1..Len(out) :
       /\ out[j].timestamp \in 1..idx
       /\ out[j] = Stored(loglines[out[j].timestamp])
  /\ \A j \in 1..(Len(out) - 1) : out[j].timestamp < out[j + 1].timestamp
  /\ {out[j].timestamp : j \in 1..Len(out)} = {p \in 1..idx : Kept(p)}

C13_Witness ==
  LET out == AllMessages(conversations) IN
  /\ pc = "grouped"
  /\ Len(out) >= 3
  /\ \E i, j \in 1..Len(out) :
       /\ i < j
       /\ out[i].type = "assistant"
       /\ SameEntry(out[i].timestamp, out[j].timestamp)
       /\ out[i].messageJson = out[j].messageJson

(***************************************************************************)
(* Vocabulary of C14.  An occurrence of the commit pattern at position i   *)
(* of s: "[", a ref of word characters, "-" and "/", a space, a hash of    *)
(* seven or more hex digits, "] ", and a message that is the rest of the   *)
(* line; the line break that ends the line belongs to the match.           *)
(***************************************************************************)
Occurrences(s, i) ==
  LET n == Len(s)
      spaces == {k \in 1..n : s[k] = " "}
      closes == {k \in 1..n : s[k] = "]"}
      ends == {k \in 1..n : s[k] = "\n"} \cup {n + 1}
  IN { [end |-> IF t[3] = n + 1 THEN n + 1 ELSE t[3] + 1,
        hash |-> SubSeq(s, t[1] + 1, t[2] - 1),
        message |-> SubSeq(s, t[2] + 2, t[3] - 1)] :
       t \in { u \in spaces \X closes \X ends :
                 /\ i <= n /\ s[i] = "["
                 /\ i + 1 < u[1] /\ \A k \in (i + 1)..(u[1] - 1) : s[k] \in RefChars
                 /\ u[2] - u[1] - 1 >= MinHashLength
                 /\ \A k \in (u[1] + 1)..(u[2] - 1) : s[k] \in HexChars
                 /\ u[2] + 1 <= n /\ s[u[2] + 1] = " "
                 /\ u[2] + 2 < u[3]
                 /\ \A k \in (u[2] + 2)..(u[3] - 1) : s[k] \notin LineTerminators } }

CommitUrl(repo, hash) == <<"https://github.com/">> \o repo \o <<"/commit/">> \o hash

\* parts is s with every occurrence replaced by a commit card linking to its
\* hash and everything else emitted verbatim: the pieces of text and the
\* replaced matches, in order, make up s, and no piece of text holds the
\* start of an occurrence
RECURSIVE Replaces(_, _, _)
Replaces(parts, s, repo) ==
  IF parts = <<>> THEN s = <<>>
  ELSE LET part == Head(parts)
           piece == part.text
       IN IF part.cls = "#text"
          THEN /\ piece # <<>>
               /\ Len(piece) <= Len(s)
               /\ SubSeq(s, 1, Len(piece)) = piece
               /\ \A i \in 1..Len(piece) : Occurrences(s, i) = {}
               /\ Replaces(Tail(parts), SubSeq(s, Len(piece) + 1, Len(s)), repo)
          ELSE /\ part.cls = "commit-card"
               /\ Len(part.kids) = 1
               /\ \E o \in Occurrences(s, 1) :
                    /\ part.kids[1].cls = "a"
                    /\ part.kids[1].href = CommitUrl(repo, o.hash)
                    /\ o.message \in TextsIn(part.kids[1].kids)
                    /\ Replaces(Tail(parts), SubSeq(s, o.end, Len(s)), repo)

\* what ToolResult put inside the Truncatable wrapper
ResultParts == rendered.html[1].kids[1].kids[1].kids

StringResultWithRepo ==
  /\ BlockRendered
  /\ block.type = "tool_result"
  /\ block.content.kind = "string"
  /\ Truthy(githubRepo)

RECURSIVE Select(_, _)
Select(html, classes) ==
  IF html = <<>> THEN <<>>
  ELSE (IF Head(html).cls \in classes THEN <<Head(html)>> ELSE <<>>)
       \o Select(Tail(html), classes)

MessageClasses == {"message user", "message tool-reply", "message assistant"}

IndexDocument == files[IndexHtml]

\* the link of the index entry of conversation i
IndexLinkOf(i) == Select(IndexDocument.body, {"index-item"})[i].kids[1].href

\* the page paginateConversations placed conversation i on
PageOf(i) ==
  CHOOSE p \in 1..Len(pages) :
    \E j \in 1..Len(pages[p]) : Len(Concat(SubSeq(pages, 1, p - 1))) + j = i

\* a timestamp with every ":" and "." replaced by "-"
Dashed(ts) == [k \in 1..Len(ts) |-> IF ts[k] = ":" \/ ts[k] = "." THEN "-" ELSE ts[k]]

(***************************************************************************)
(* C15: the index entry of conversation i links to the file of the page    *)
(* paginateConversations placed the conversation on, with an anchor equal  *)
(* to the id the page assembler gives the block of the conversation's      *)
(* first message -- "msg-" and the timestamp with ":" and "." replaced by  *)
(* "-" -- so the target of the link exists in the output.                  *)
(***************************************************************************)
C15_IndexLinkTargetExists ==
  pc = "rendered" =>
    \A i \in 1..Len(conversations) :
      LET href == IndexLinkOf(i)
          hash == IndexOf(href, 1, "#")
          name == SubSeq(href, 1, hash - 1)
          anchor == SubSeq(href, hash + 1, Len(href))
          first == conversations[i].messages[1]
      IN /\ hash <= Len(href)
         /\ name = getPageFilename(PageOf(i))
         /\ name \in DOMAIN files
         /\ files[name].kind = "page"
         /\ files[name].pageNum = PageOf(i)
         /\ \E j \in 1..Len(pages[PageOf(i)]) : pages[PageOf(i)][j] = conversations[i]
         /\ anchor = <<"msg-">> \o Dashed(TimestampText(first.timestamp))
         /\ \E k \in 1..Len(files[name].body) :
              /\ files[name].body[k].cls \in MessageClasses
              /\ files[name].body[k].id = anchor
              /\ TimestampText(first.timestamp) \in TextsIn(<<files[name].body[k].kids[1]>>)

C15_Witness ==
  /\ pc = "rendered"
  /\ Len(conversations) = 7
  /\ Len(conversations[7].messages) = 2
  /\ SubSeq(IndexLinkOf(7), 1, 14) =
       <<"p", "a", "g", "e", "-", "0", "0", "2", ".", "h", "t", "m", "l", "#">>
  /\ \E k \in 1..Len(files[getPageFilename(2)].body) :
       <<"msg-">> \o SubSeq(IndexLinkOf(7), 16, Len(IndexLinkOf(7)))
         = files[getPageFilename(2)].body[k].id

(***************************************************************************)
(* C16.  Vocabulary: the invocations the claim is about.                   *)
(***************************************************************************)
Exited == pc = "exited"
NoInputPath == Len(args) = 0 \/ args[1] = <<>>
InputGiven == ~WantsUsage(args) /\ args[1] # <<>>
LoaderRejects ==
  \/ ~file.exists
  \/ ~(file.jsonlExt \/ isJsonl(file.lines)) /\ ~parseJson(file.whole).ok
ErrorPrinted ==
  /\ printed # <<>>
  /\ printed[Len(printed)] \in {<<"Error:", m>> : m \in {"ENOENT", "SyntaxError", "ZodError"}}

(* C16: when the command line has ended, an invocation without an input    *)
(* path has a nonzero exit status, and an invocation whose input file is   *)
(* unreadable or rejected by the loader has a nonzero exit status, the     *)
(* loader's error message printed last, and nothing in the output          *)
(* directory.                                                              *)
C16_ErrorsExitNonzero ==
  Exited =>
    /\ NoInputPath => exitCode # 0
    /\ (InputGiven /\ LoaderRejects) => (exitCode # 0 /\ ErrorPrinted /\ disk = {})

\* the second half alone: load errors of an invocation that names an input
C16_LoadErrorsExitNonzero ==
  (Exited /\ InputGiven /\ LoaderRejects) => (exitCode # 0 /\ ErrorPrinted /\ disk = {})

C16_NoArgumentsExitZero == Exited /\ args = <<>> /\ exitCode = 0

(***************************************************************************)
(* C17, C18.  Vocabulary: the page files, the messages placed on a page    *)
(* and what the content of a message renders to.                           *)
(***************************************************************************)
PageBody(p) == files[getPageFilename(p)].body

\* the strings joined with "\n" to make the page
PageParts(p) ==
  SelectSeq(PageBody(p), LAMBDA n : ~(n.cls = "#text" /\ n.text = <<"\n">>))

PageMessages(p) == Concat([k \in 1..Len(pages[p]) |-> pages[p][k].messages])

ContentHtmlOf(m) ==
  LET data == JSONparse(m.messageJson) IN
  IF m.type = "user" THEN UserContent(data.content)
  ELSE renderAssistantMessage(data, githubRepo)

RendersBlank(m) == IsBlankHtml(ContentHtmlOf(m).html)

ShownMessages(p) == SelectSeq(PageMessages(p), LAMBDA m : ~RendersBlank(m))

MessageId(m) == <<"msg-">> \o Dashed(TimestampText(m.timestamp))

(***************************************************************************)
(* C17: every page file is a pagination control, then one message block    *)
(* for each message of the page's conversations, in conversation order and *)
(* message order, leaving out exactly the messages whose content renders   *)
(* to a blank string, then a pagination control equal to the first.        *)
(***************************************************************************)
C17_PageStructure ==
  pc = "rendered" =>
    \A p \in 1..Len(pages) :
      LET parts == PageParts(p)
          shown == ShownMessages(p)
      IN /\ Len(parts) = Len(shown) + 2
         /\ parts[1] = Pagination(p, totalPages)
         /\ parts[Len(parts)] = parts[1]
         /\ \A k \in 1..Len(shown) :
              /\ parts[k + 1].cls \in MessageClasses
              /\ parts[k + 1].id = MessageId(shown[k])
              /\ parts[k + 1].kids[2] =
                   Element("message-content", ContentHtmlOf(shown[k]).html)

\* a page of three messages, the second of which is left out
C17_Witness ==
  /\ pc = "rendered"
  /\ Len(pages) = 1
  /\ Len(PageMessages(1)) = 3
  /\ RendersBlank(PageMessages(1)[2])
  /\ Len(PageParts(1)) = 4
  /\ PageParts(1)[3].id = MessageId(PageMessages(1)[3])

\* the message blocks of a page, one per message that is shown
MessageBlocks(p) == Select(PageBody(p), MessageClasses)

RoleLabelOf(messageBlock) == messageBlock.kids[1].kids[1].kids[1].text

\* a user-type message whose content is a non-empty array of tool results
OnlyToolResults(m) ==
  LET content == JSONparse(m.messageJson).content IN
  /\ m.type = "user"
  /\ content.kind = "array"
  /\ content.blocks # <<>>
  /\ \A k \in 1..Len(content.blocks) : content.blocks[k].type = "tool_result"

(***************************************************************************)
(* C18: the block of a user-type message has class tool-reply and label    *)
(* "Tool reply" exactly when the content of the message is a non-empty     *)
(* array of tool-result blocks only, and class user and label "User"       *)
(* otherwise; the block of an assistant-type message has class assistant   *)
(* and label "Assistant".                                                  *)
(***************************************************************************)
C18_RoleLabels ==
  pc = "rendered" =>
    \A p \in 1..Len(pages) :
      LET shown == ShownMessages(p)
          blocks == MessageBlocks(p)
      IN /\ Len(blocks) = Len(shown)
         /\ \A k \in 1..Len(shown) :
              IF shown[k].type = "assistant"
              THEN blocks[k].cls = "message assistant"
                   /\ RoleLabelOf(blocks[k]) = <<"Assistant">>
              ELSE IF OnlyToolResults(shown[k])
              THEN blocks[k].cls = "message tool-reply"
                   /\ RoleLabelOf(blocks[k]) = <<"Tool reply">>
              ELSE blocks[k].cls = "message user"
                   /\ RoleLabelOf(blocks[k]) = <<"User">>

\* a prompt, a reply made of one tool result, and a user message that
\* mixes a tool result with text
C18_Witness ==
  /\ pc = "rendered"
  /\ Len(pages) = 1
  /\ Len(MessageBlocks(1)) = 3
  /\ MessageBlocks(1)[2].cls = "message tool-reply"
  /\ RoleLabelOf(MessageBlocks(1)[2]) = <<"Tool reply">>
  /\ MessageBlocks(1)[3].cls = "message user"
  /\ JSONparse(PageMessages(1)[3].messageJson).content.kind = "array"
  /\ Len(JSONparse(PageMessages(1)[3].messageJson).content.blocks) = 2

(***************************************************************************)
(* C19, C20.  Vocabulary: the tool-use and tool-result blocks of a list of *)
(* messages, and the entries of a statistics line.                         *)
(***************************************************************************)
Analyzed == pc \in {"analyzed", "indexed"}
Indexed == pc = "indexed"

BlocksOfContent(content) == IF content.kind = "array" THEN content.blocks ELSE <<>>

SessionBlocks ==
  Concat([k \in 1..Len(loglines) |->
            IF loglines[k].message = Undefined THEN <<>>
            ELSE BlocksOfContent(loglines[k].message[1].content)])

AssistantBlocks(messages) ==
  Concat([k \in 1..Len(messages) |->
            IF messages[k].type = "assistant"
            THEN BlocksOfContent(JSONparse(messages[k].messageJson).content)
            ELSE <<>>])

\* the number of tool-use blocks whose normalized name is `key'
UsesOf(blocks, key) ==
  Cardinality({k \in 1..Len(blocks) :
                 blocks[k].type = "tool_use" /\ normalizeToolName(blocks[k].name) = key})

CanonicalNames(blocks) ==
  {normalizeToolName(blocks[k].name) : k \in {j \in 1..Len(blocks) : blocks[j].type = "tool_use"}}

\* the entries of a Map kept as a list, as a set of pairs
EntriesOf(toolCounts) ==
  {<<toolCounts[k].name, toolCounts[k].count>> : k \in 1..Len(toolCounts)}

\* the "count name" entries a statistics line is made of
RECURSIVE StatEntries(_, _)
StatEntries(line, acc) ==
  IF line = <<>> THEN (IF acc = <<>> THEN {} ELSE {acc})
  ELSE IF Len(line) >= 3 /\ SubSeq(line, 1, 3) = MiddleDot
       THEN {acc} \cup StatEntries(SubSeq(line, 4, Len(line)), <<>>)
       ELSE StatEntries(Tail(line), Append(acc, Head(line)))

(***************************************************************************)
(* C19: the whole-session analyzer holds one counter per normalized tool   *)
(* name, equal to the number of tool-use blocks of the session with that   *)
(* normalized name, and the statistics line of each conversation has one   *)
(* entry per normalized name with the number of the conversation's         *)
(* tool-use blocks of that name.                                           *)
(***************************************************************************)
C19_SessionCountsNormalized ==
  Analyzed =>
    EntriesOf(analysis.toolCounts) =
      {<<key, UsesOf(SessionBlocks, key)>> : key \in CanonicalNames(SessionBlocks)}

C19_ConversationCountsNormalized ==
  Indexed =>
    \A i \in 1..Len(conversations) :
      LET blocks == AssistantBlocks(conversations[i].messages) IN
      StatEntries(stats[i].toolStats, <<>>) =
        {ToDecimal(UsesOf(blocks, key)) \o <<" ">> \o key : key \in CanonicalNames(blocks)}

C19_CountsNormalized == C19_SessionCountsNormalized /\ C19_ConversationCountsNormalized

\* Write and write counted under two keys by the whole-session analyzer
C19_AliasesSplit ==
  /\ Analyzed
  /\ \E k \in 1..Len(analysis.toolCounts) :
       analysis.toolCounts[k].name = <<"W", "r", "i", "t", "e">>
  /\ \E k \in 1..Len(analysis.toolCounts) : analysis.toolCounts[k].name = WriteName

\* every occurrence of the analyzer's pattern in s at or after `from', one
\* after the other as a global search finds them
RECURSIVE AllMatches(_, _)
AllMatches(s, from) ==
  LET match == AnalyzerMatch(s, from) IN
  IF match = Undefined THEN <<>>
  ELSE <<match[1]>> \o AllMatches(s, IF match[1].end > match[1].index THEN match[1].end
                                     ELSE match[1].index + 1)

\* one commit record per occurrence in the text of a tool-result block
RecordsOf(resultBlock, timestamp) ==
  LET found == AllMatches(ResultText(resultBlock.content), 1) IN
  [k \in 1..Len(found) |->
     [hash |-> found[k].hash, message |-> Trim(found[k].message), timestamp |-> timestamp]]

EveryOccurrence ==
  Concat([k \in 1..Len(loglines) |->
            IF loglines[k].message = Undefined THEN <<>>
            ELSE LET blocks == BlocksOfContent(loglines[k].message[1].content) IN
                 Concat([j \in 1..Len(blocks) |->
                           IF blocks[j].type = "tool_result"
                           THEN RecordsOf(blocks[j], loglines[k].timestamp)
                           ELSE <<>>])])

(***************************************************************************)
(* C20: the commits of the whole-session analyzer are one record for each  *)
(* occurrence of the commit pattern in each tool-result text, in order,    *)
(* with the hash and the trimmed rest of the line as message.              *)
(***************************************************************************)
C20_EveryMatchCaptured == Analyzed => analysis.commits = EveryOccurrence

\* the first occurrence of each tool-result text is recorded
C20_FirstMatchCaptured ==
  Analyzed =>
    /\ Len(analysis.commits) <= Len(EveryOccurrence)
    /\ \A k \in 1..Len(analysis.commits) :
         \E j \in 1..Len(EveryOccurrence) : analysis.commits[k] = EveryOccurrence[j]
    /\ EveryOccurrence # <<>> => analysis.commits # <<>>
       /\ analysis.commits[1] = EveryOccurrence[1]

\* a text holding two commits of which one is recorded
C20_SecondCommitLost ==
  /\ Analyzed
  /\ Len(loglines) = 1
  /\ Len(EveryOccurrence) = 2
  /\ Len(analysis.commits) = 1

(***************************************************************************)
(* C21.  Vocabulary: the entries of the summary line of the index and the  *)
(* tool-use blocks of the turns of the session.                            *)
(***************************************************************************)
IndexSummaryLine == Select(IndexDocument.body, {"p"})[1].kids[1].text

SummaryEntries == StatEntries(IndexSummaryLine, <<>>)

\* the content of an entry, from the nested message or else the flat field
ContentOfEntry(logline) ==
  IF logline.message # Undefined THEN <<logline.message[1].content>>
  ELSE logline.content

ToolUsesOfEntry(logline) ==
  IF ContentOfEntry(logline) = <<>> THEN 0
  ELSE LET blocks == BlocksOfContent(ContentOfEntry(logline)[1]) IN
       Cardinality({k \in 1..Len(blocks) : blocks[k].type = "tool_use"})

RECURSIVE ToolUsesOfTurns(_)
ToolUsesOfTurns(ls) ==
  IF ls = <<>> THEN 0
  ELSE (IF Head(ls).type \in {"user", "assistant"} THEN ToolUsesOfEntry(Head(ls)) ELSE 0)
       + ToolUsesOfTurns(Tail(ls))

Noun(n, noun) == ToDecimal(n) \o <<" ", noun>> \o (IF n = 1 THEN <<>> ELSE <<"s">>)

(***************************************************************************)
(* C21: the summary of the index names as tool calls the number of         *)
(* tool-use blocks in the user and assistant entries of the session,       *)
(* whichever field carries the message, as prompts the number of           *)
(* conversations and as pages ceil(conversations / 5).                     *)
(***************************************************************************)
C21_SummaryCounts ==
  pc = "rendered" =>
    /\ Noun(ToolUsesOfTurns(loglines), "tool call") \in SummaryEntries
    /\ Noun(Len(conversations), "prompt") \in SummaryEntries
    /\ Noun((Len(conversations) + PROMPTS_PER_PAGE - 1) \div PROMPTS_PER_PAGE, "page")
         \in SummaryEntries

\* the prompt and page counts alone
C21_PromptAndPageCounts ==
  pc = "rendered" =>
    /\ Noun(Len(conversations), "prompt") \in SummaryEntries
    /\ Noun((Len(conversations) + PROMPTS_PER_PAGE - 1) \div PROMPTS_PER_PAGE, "page")
         \in SummaryEntries

\* a tool use of a flat-content assistant entry that the summary leaves out
C21_FlatToolUseNotCounted ==
  /\ pc = "rendered"
  /\ Len(loglines) = 2
  /\ loglines[2].type = "assistant" /\ loglines[2].message = Undefined
  /\ ToolUsesOfTurns(loglines) = 1
  /\ Noun(0, "tool call") \in SummaryEntries

(***************************************************************************)
(* C22.  Vocabulary: the commit cards inside a piece of HTML and the       *)
(* commits of the tool-result strings of a message.                        *)
(***************************************************************************)
RECURSIVE CardLinks(_)
CardLinks(html) ==
  IF html = <<>> THEN {}
  ELSE (IF Head(html).cls = "commit-card"
        THEN {Head(html).kids[k].href : k \in 1..Len(Head(html).kids)}
        ELSE CardLinks(Head(html).kids))
       \cup CardLinks(Tail(html))

HashesIn(s) == UNION {{o.hash : o \in Occurrences(s, i)} : i \in 1..Len(s)}

CommitLinksOf(m, repo) ==
  LET blocks == BlocksOfContent(JSONparse(m.messageJson).content) IN
  UNION { {CommitUrl(repo, h) : h \in HashesIn(blocks[k].content.text)} :
            k \in {j \in 1..Len(blocks) : /\ blocks[j].type = "tool_result"
                                          /\ blocks[j].content.kind = "string"} }

(***************************************************************************)
(* C22: with a repository configured, the block of every message shown on  *)
(* a page holds a commit card linking to each commit of each tool-result   *)
(* string of the message, in user messages as in assistant messages.       *)
(***************************************************************************)
C22_CommitLinkedOnBothPaths ==
  (pc = "rendered" /\ Truthy(githubRepo)) =>
    \A p \in 1..Len(pages) :
      \A k \in 1..Len(ShownMessages(p)) :
        CommitLinksOf(ShownMessages(p)[k], githubRepo[1])
          \subseteq CardLinks(<<MessageBlocks(p)[k]>>)

\* the assistant path alone
C22_CommitLinkedInAssistantMessages ==
  (pc = "rendered" /\ Truthy(githubRepo)) =>
    \A p \in 1..Len(pages) :
      \A k \in 1..Len(ShownMessages(p)) :
        ShownMessages(p)[k].type = "assistant" =>
          CommitLinksOf(ShownMessages(p)[k], githubRepo[1])
            \subseteq CardLinks(<<MessageBlocks(p)[k]>>)

\* a tool reply with a commit shown without a card, next to an assistant
\* message whose commit is linked
C22_ToolReplyNotLinked ==
  /\ pc = "rendered" /\ Truthy(githubRepo)
  /\ Len(pages) = 1 /\ Len(MessageBlocks(1)) = 3
  /\ MessageBlocks(1)[2].cls = "message tool-reply"
  /\ CommitLinksOf(ShownMessages(1)[2], githubRepo[1]) # {}
  /\ CardLinks(<<MessageBlocks(1)[2]>>) = {}
  /\ CardLinks(<<MessageBlocks(1)[3]>>) # {}

(***************************************************************************)
(* C23.  Vocabulary: the commits each site recognised in the string.       *)
(***************************************************************************)
PatternApplied == pc = "pattern-analyzed"

RenderedCards == SelectSeq(ResultParts, LAMBDA n : n.cls = "commit-card")

\* hash and message of the commits the renderer replaced by a card
RendererCommits ==
  [k \in 1..Len(RenderedCards) |->
     [hash |-> SubSeq(RenderedCards[k].kids[1].href, Len(Repo) + 3,
                      Len(RenderedCards[k].kids[1].href)),
      message |-> RenderedCards[k].kids[1].kids[3].text]]

HashAndMessage(commits) ==
  [k \in 1..Len(commits) |-> [hash |-> commits[k].hash, message |-> commits[k].message]]

(***************************************************************************)
(* C23: for every tool-result string, analyzeConversation,                 *)
(* findConversationCommits and the tool-result renderer recognise the same *)
(* commits, with the same hash and the same message.                       *)
(***************************************************************************)
C23_SamePattern ==
  PatternApplied =>
    /\ HashAndMessage(analysis.commits) = RendererCommits
    /\ HashAndMessage(stats[1].commits) = RendererCommits

\* the two sites of the index agree with each other
C23_IndexSitesAgree ==
  PatternApplied => HashAndMessage(analysis.commits) = HashAndMessage(stats[1].commits)

\* a ref with a dot: a commit for the analyzer, plain text for the renderer
C23_DottedRefDiffers ==
  /\ PatternApplied
  /\ block.content.text = DottedRefLine
  /\ Len(analysis.commits) = 1
  /\ RendererCommits = <<>>

(***************************************************************************)
(* C24.  Vocabulary: the text a preview is taken from, its words, and the  *)
(* cut at 100 characters.                                                  *)
(***************************************************************************)
Grouped == pc = "grouped"

OpeningContent == getMessageFromLogline(loglines[1])[1].content

TextBlocksOf(blocks) == SelectSeq(blocks, LAMBDA b : b.type = "text")

\* the first text block's content if there is a text block, else the tag of
\* the first block, else nothing
PreviewSource(content) ==
  IF content.kind = "string" THEN content.text
  ELSE IF TextBlocksOf(content.blocks) # <<>> THEN TextBlocksOf(content.blocks)[1].text
  ELSE IF content.blocks # <<>> THEN <<"[", content.blocks[1].type, "]">>
  ELSE <<>>

\* as above, but a first text block that is empty counts as no text
PreviewSourceNonEmpty(content) ==
  IF content.kind = "string" THEN content.text
  ELSE IF TextBlocksOf(content.blocks) # <<>> /\ TextBlocksOf(content.blocks)[1].text # <<>>
       THEN TextBlocksOf(content.blocks)[1].text
  ELSE IF content.blocks # <<>> THEN <<"[", content.blocks[1].type, "]">>
  ELSE <<>>

\* the words of a text are its maximal runs of characters that are not
\* whitespace; the words joined by single spaces: each character of a word
\* lands after the characters and the gaps that precede it
JoinedWords(s) ==
  LET InWord(i) == s[i] \notin {" ", "\n", "\t"}
      Starts(i) == InWord(i) /\ (i = 1 \/ ~InWord(i - 1))
      Place(i) == Cardinality({j \in 1..i : InWord(j)}) + Cardinality({j \in 1..i : Starts(j)}) - 1
      Lay(place) ==
        LET last == IF \E i \in 1..Len(s) : InWord(i)
                    THEN place[CHOOSE i \in 1..Len(s) : InWord(i) /\ \A j \in (i + 1)..Len(s) : ~InWord(j)]
                    ELSE 0
        IN [p \in 1..last |->
              IF \E i \in 1..Len(s) : InWord(i) /\ place[i] = p
              THEN s[CHOOSE i \in 1..Len(s) : InWord(i) /\ place[i] = p]
              ELSE " "]
  IN Lay([i \in 1..Len(s) |-> Place(i)])

CutAt100(s) ==
  IF Len(s) > 100 THEN SubSeq(s, 1, 100) \o <<".", ".", ".">> ELSE s

(***************************************************************************)
(* C24: the preview of a conversation is the text of the first text block  *)
(* of the message that opens it when the message has a text block (the     *)
(* whole string for string content), else the bracketed type of its first  *)
(* block, else empty; with every run of whitespace turned into one space,  *)
(* trimmed, and cut to 100 characters plus "..." when longer.              *)
(***************************************************************************)
C24_PreviewText ==
  (Grouped /\ Len(conversations) = 1) =>
    conversations[1].userText = CutAt100(JoinedWords(PreviewSource(OpeningContent)))

\* the same with an empty first text block treated as no text block
C24_PreviewTextNonEmpty ==
  (Grouped /\ Len(conversations) = 1) =>
    conversations[1].userText =
      CutAt100(JoinedWords(PreviewSourceNonEmpty(OpeningContent)))

\* an image and an empty text block: the preview is the tag of the image
C24_EmptyTextGivesTag ==
  /\ Grouped /\ Len(conversations) = 1
  /\ OpeningContent = ArrayContent(<<ImageOf, TextBlock(<<>>)>>)
  /\ conversations[1].userText = <<"[", "image", "]">>

\* a text cut to 100 characters and the ellipsis
C24_LongTextCut ==
  /\ Grouped /\ Len(conversations) = 1
  /\ Len(conversations[1].userText) = 103
  /\ conversations[1].userText[100] = " "

(***************************************************************************)
(* C25.  Vocabulary: the blocks of the analyzed entries with the time of   *)
(* their entry, and the long-text record of a text.                        *)
(***************************************************************************)
TimedBlocks ==
  UNION { { [block |-> BlocksOfContent(loglines[k].message[1].content)[j],
             timestamp |-> loglines[k].timestamp] :
              j \in 1..Len(BlocksOfContent(loglines[k].message[1].content)) } :
          k \in {i \in 1..Len(loglines) : loglines[i].message # Undefined} }

InputStrings(input) ==
  { f[1] : f \in {input.content, input.newString, input.replacement} \ {Undefined} }

Recorded(type, text, timestamp) ==
  \E k \in 1..Len(analysis.longTexts) :
    analysis.longTexts[k] =
      [type |-> type, preview |-> SubSeq(text, 1, 200) \o <<".", ".", ".">>,
       full |-> text, timestamp |-> timestamp]

\* the one string analyzeConversation looks at: the first field that is set
FirstInputString(input) ==
  IF input.content # Undefined THEN {input.content[1]}
  ELSE IF input.newString # Undefined THEN {input.newString[1]}
  ELSE InputStrings(input)

(***************************************************************************)
(* C25: after analyzeConversation, every thinking block longer than 500    *)
(* characters and every string longer than 500 characters held by a tool   *)
(* input under content, newString or replacement has a long-text record    *)
(* (200-character preview, full text, time of the entry), whatever the     *)
(* other fields hold; and every record is about a text longer than 500.    *)
(***************************************************************************)
C25_LongTextsRecorded ==
  (pc \in {"analyzed", "indexed"}) =>
    /\ \A tb \in TimedBlocks :
         /\ (tb.block.type = "thinking" /\ Len(tb.block.thinking) > 500) =>
              Recorded(<<"thinking">>, tb.block.thinking, tb.timestamp)
         /\ tb.block.type = "tool_use" =>
              \A text \in InputStrings(tb.block.input) :
                Len(text) > 500 => Recorded(tb.block.name, text, tb.timestamp)
    /\ \A k \in 1..Len(analysis.longTexts) : Len(analysis.longTexts[k].full) > 500

\* the same for the first field that holds a string only
C25_FirstStringRecorded ==
  (pc \in {"analyzed", "indexed"}) =>
    /\ \A tb \in TimedBlocks :
         /\ (tb.block.type = "thinking" /\ Len(tb.block.thinking) > 500) =>
              Recorded(<<"thinking">>, tb.block.thinking, tb.timestamp)
         /\ tb.block.type = "tool_use" =>
              \A text \in FirstInputString(tb.block.input) :
                Len(text) > 500 => Recorded(tb.block.name, text, tb.timestamp)
    /\ \A k \in 1..Len(analysis.longTexts) : Len(analysis.longTexts[k].full) > 500

\* a short content string beside a long newString: nothing is recorded
C25_ShortFieldHidesLong ==
  /\ pc = "analyzed"
  /\ Len(loglines) = 2
  /\ loglines[2].message[1].content.blocks[1].type = "tool_use"
  /\ loglines[2].message[1].content.blocks[1].input.content = Some(TextHi)
  /\ loglines[2].message[1].content.blocks[1].input.newString = Some(OverLimit)
  /\ analysis.longTexts = <<>>

(***************************************************************************)
(* C26.  Vocabulary: the tasks of a task-list block and the list items of  *)
(* its rendering.                                                          *)
(***************************************************************************)
IsTaskList ==
  /\ block.type = "tool_use"
  /\ Named(toLowerCase(block.name), TodoWriteName)
  /\ block.input.todos # Undefined
  /\ block.input.todos[1].isArray
  /\ \A k \in 1..Len(block.input.todos[1].items) : block.input.todos[1].items[k].json # "null"

Tasks == block.input.todos[1].items

ListItems == rendered.html[1].kids[2].kids

PendingItem(content) ==
  Element("todo-item todo-pending",
          << Element("todo-icon", Txt(<<"circle">>)),
             Element("todo-content", Txt(content)) >>)

(***************************************************************************)
(* C26: the rendering of a task list has one list item per task, and the   *)
(* item of a task whose status is missing or is none of pending,           *)
(* in_progress, completed is the item of a pending task: pending icon and  *)
(* pending status class.                                                   *)
(***************************************************************************)
C26_UnknownStatusIsPending ==
  (pc = "block-rendered" /\ IsTaskList) =>
    /\ ~rendered.thrown
    /\ Len(ListItems) = Len(Tasks)
    /\ \A k \in 1..Len(Tasks) :
         Tasks[k].status \notin {"in_progress", "completed"} =>
           ListItems[k] = PendingItem(Tasks[k].content)

\* one item per task; a missing status gives the pending item, an
\* unrecognized one the pending icon
C26_MissingStatusIsPending ==
  (pc = "block-rendered" /\ IsTaskList) =>
    /\ ~rendered.thrown
    /\ Len(ListItems) = Len(Tasks)
    /\ \A k \in 1..Len(Tasks) :
         /\ Tasks[k].status \in {"", "pending"} => ListItems[k] = PendingItem(Tasks[k].content)
         /\ Tasks[k].status \notin {"in_progress", "completed"} =>
              ListItems[k].kids[1] = PendingItem(Tasks[k].content).kids[1]

\* a task with status "blocked": the item has the class todo-blocked
C26_UnknownStatusClass ==
  /\ pc = "block-rendered" /\ IsTaskList
  /\ Len(Tasks) = 1
  /\ Tasks[1].status = "blocked"
  /\ ListItems[1].cls = "todo-item todo-blocked"

(***************************************************************************)
(* C27.  Vocabulary: the fields of the entry a step processes.             *)
(***************************************************************************)
IsTurn(e) == e.type \in {"user", "assistant"}

HasNeither(e) == e.message = Undefined /\ e.content = Undefined

\* the nested message's content when there is a nested message, else the
\* flat content
ResolvedContent(e) ==
  IF e.message # Undefined THEN e.message[1].content ELSE e.content[1]

LastMessage(cs) == cs[Len(cs)].messages[Len(cs[Len(cs)].messages)]

(***************************************************************************)
(* C27: a step of the grouper on an entry that is no user or assistant     *)
(* turn, or on a turn with neither a nested message nor flat content,      *)
(* leaves the conversation list and the open conversation as they are; a   *)
(* turn with a message is not skipped once a conversation is open, and the *)
(* message stored for it is the nested message when there is one, else the *)
(* flat content.                                                           *)
(***************************************************************************)
C27_Step ==
  (InLoop /\ idx' = idx + 1) =>
     /\ (~IsTurn(Entry) \/ HasNeither(Entry)) =>
          (conversations' = conversations /\ current' = current)
     /\ (IsTurn(Entry) /\ ~HasNeither(Entry)) =>
          /\ conversations # <<>> => conversations' # conversations
          /\ conversations' # conversations =>
               /\ LastMessage(conversations').timestamp = Entry.timestamp
               /\ LastMessage(conversations').messageJson =
                    <<"{", "content", ":", ResolvedContent(Entry), "}">>

C27_MessageResolvedOrSkipped == [][C27_Step]_vars

\* an entry with both fields was stored with its nested message, a turn with
\* neither and an entry of another type were passed over, and an entry with
\* the flat field only was stored
C27_Witness ==
  /\ pc = "grouped"
  /\ Len(loglines) = 4
  /\ loglines[1].message # Undefined /\ loglines[1].content # Undefined
  /\ IsTurn(loglines[2]) /\ HasNeither(loglines[2])
  /\ loglines[3].type = "summary"
  /\ loglines[4].message = Undefined /\ loglines[4].content # Undefined
  /\ Len(conversations) = 1
  /\ Len(conversations[1].messages) = 2
  /\ conversations[1].messages[1].messageJson = <<"{", "content", ":", StringContent(TextHi), "}">>
  /\ conversations[1].messages[2].timestamp = 4

(***************************************************************************)
(* C28.  Vocabulary: the message blocks of all page files, and the label   *)
(* a message of a conversation has in them (none when it has no block).    *)
(***************************************************************************)
AllMessageBlocks ==
  UNION {{MessageBlocks(p)[k] : k \in 1..Len(MessageBlocks(p))} : p \in 1..Len(pages)}

BlocksFor(m) == {b \in AllMessageBlocks : b.id = MessageId(m)}

LabelsOf(m) == {RoleLabelOf(b) : b \in BlocksFor(m)}

LabelledUser(c) == {j \in 1..Len(c.messages) : <<"User">> \in LabelsOf(c.messages[j])}

(***************************************************************************)
(* C28: in every conversation of the grouper exactly one message           *)
(* is labelled "User" on the pages, the first one, and every other         *)
(* user-type message is labelled "Tool reply".                             *)
(***************************************************************************)
C28_ExactlyOneUser ==
  pc = "rendered" =>
    \A k \in 1..Len(conversations) :
      LET c == conversations[k] IN
      /\ LabelledUser(c) = {1}
      /\ \A j \in 2..Len(c.messages) :
           c.messages[j].type = "user" => LabelsOf(c.messages[j]) = {<<"Tool reply">>}

\* a conversation of a prompt, an assistant message and a tool reply, all
\* three shown
C28_Witness ==
  /\ pc = "rendered"
  /\ Len(conversations) = 1
  /\ Len(conversations[1].messages) = 3
  /\ conversations[1].messages[3].type = "user"
  /\ LabelsOf(conversations[1].messages[1]) = {<<"User">>}
  /\ LabelsOf(conversations[1].messages[2]) = {<<"Assistant">>}
  /\ LabelsOf(conversations[1].messages[3]) = {<<"Tool reply">>}

(***************************************************************************)
(* C29.  Vocabulary: the items of a pagination control, its links and      *)
(* where they lead.                                                        *)
(***************************************************************************)
NavItems == rendered.html[1].kids

NavLinks == {k \in 1..Len(NavItems) : NavItems[k].href # <<>>}

LabelOfItem(k) == NavItems[k].kids[1].text

PageFiles == {getPageFilename(p) : p \in 1..totalPages}

Labelled(label, cls) ==
  \E k \in 1..Len(NavItems) : NavItems[k].cls = cls /\ LabelOfItem(k) = label

(***************************************************************************)
(* C29: no link of a pagination control dangles.  Every link of            *)
(* Pagination(currentPage, totalPages), 1 <= currentPage <= totalPages,    *)
(* and of IndexPagination(totalPages), totalPages >= 0, leads to           *)
(* index.html or to the file of a page in 1..totalPages; no link leads to  *)
(* the page the control is on; Prev is no link on page 1 and on the index, *)
(* Next is no link on the last page, and with several pages they are shown *)
(* as disabled labels there.                                               *)
(***************************************************************************)
C29_NoDanglingLink ==
  /\ pc = "nav-page" =>
       /\ \A k \in NavLinks : NavItems[k].href \in PageFiles \cup {IndexHtml}
       /\ \A k \in NavLinks : NavItems[k].href # getPageFilename(pageNum)
       /\ pageNum = 1 => ~Labelled(<<"Prev">>, "a")
       /\ pageNum = totalPages => ~Labelled(<<"Next">>, "a")
       /\ (totalPages > 1 /\ pageNum = 1) => Labelled(<<"Prev">>, "disabled")
       /\ (totalPages > 1 /\ pageNum = totalPages) => Labelled(<<"Next">>, "disabled")
       /\ (totalPages > 1 /\ pageNum > 1) =>
            \E k \in NavLinks : LabelOfItem(k) = <<"Prev">>
                                /\ NavItems[k].href = getPageFilename(pageNum - 1)
       /\ (totalPages > 1 /\ pageNum < totalPages) =>
            \E k \in NavLinks : LabelOfItem(k) = <<"Next">>
                                /\ NavItems[k].href = getPageFilename(pageNum + 1)
  /\ pc = "nav-index" =>
       /\ \A k \in NavLinks : NavItems[k].href \in PageFiles
       /\ ~Labelled(<<"Prev">>, "a")
       /\ totalPages = 0 => NavLinks = {}

\* the control of the last of three pages: Prev leads to page 2, Next is
\* disabled, pages 1 and 2 are links and page 3 is not
C29_Witness ==
  /\ pc = "nav-page"
  /\ totalPages = 3 /\ pageNum = 3
  /\ Len(NavItems) = 6
  /\ NavLinks = {1, 2, 3, 4}
  /\ NavItems[2].href = getPageFilename(2)
  /\ NavItems[5].cls = "current"
  /\ NavItems[6] = Disabled("Next")

(***************************************************************************)
(* C30.  Vocabulary: the ways one step of the grouping loop may change the *)
(* conversation list.                                                      *)
(***************************************************************************)
AppendsToLast(before, after) ==
  /\ before # <<>>
  /\ Len(after) = Len(before)
  /\ \A k \in 1..(Len(before) - 1) : after[k] = before[k]
  /\ \E m \in {Stored(Entry)} :
       after[Len(after)] = [before[Len(before)] EXCEPT !.messages = Append(@, m)]

OpensConversation(before, after) ==
  /\ Len(after) = Len(before) + 1
  /\ SubSeq(after, 1, Len(before)) = before
  /\ after[Len(after)].messages = <<Stored(Entry)>>

(***************************************************************************)
(* C30: a step of the grouping loop only appends: it leaves the            *)
(* conversation list as it is, or adds the message of the entry at the end *)
(* of the last conversation, or adds at the end of the list one new        *)
(* conversation holding that message alone; no message is changed or       *)
(* removed and no conversation but the last is touched.                    *)
(***************************************************************************)
C30_Step ==
  (InLoop /\ idx' = idx + 1) =>
     \/ conversations' = conversations
     \/ AppendsToLast(conversations, conversations')
     \/ OpensConversation(conversations, conversations')

C30_StepOnlyAppends == [][C30_Step]_vars

\* two conversations, the first with two messages: a step of each kind was
\* taken and the first conversation was left alone while the second grew
C30_Witness ==
  /\ pc = "grouped"
  /\ Len(loglines) = 4
  /\ Len(conversations) = 2
  /\ Len(conversations[1].messages) = 1
  /\ Len(conversations[2].messages) = 2
  /\ conversations[2].messages[2].timestamp = 4
  /\ loglines[1].type = "summary"

====
